---- MODULE Spec2Model ----
(***************************************************************************)
(* A model of the C diagnostic front end: Tokenizer (src/lexer/            *)
(* tokenizer.py), LexicalErrorDetector (src/lexer/error_detection.py),     *)
(* SyntaxAnalyzer (src/parser/syntax_analyzer.py), TypeChecker             *)
(* (src/semantic/type_checker.py) and the run that chains them,            *)
(* MainWindow._analyze_code (src/gui/main_window.py).                      *)
(*                                                                         *)
(* A source text and a token's value are strings, a character is a string *)
(* of length one.  Indices into the source text and into the token list    *)
(* are 0-based as in the source: token k of the code is tokens[k + 1].     *)
(***************************************************************************)
EXTENDS Integers, Sequences, FiniteSets, TLC

VARIABLES
    \* Tokenizer fields (tokenizer.py 60-65) and the running call of tokenize
    source, position, line, column, current_char, tokenizer_pc,
    \* the token list: tokenize's local list, then the argument of every stage
    tokens,
    \* LexicalErrorDetector.errors
    lexical_errors,
    \* SyntaxAnalyzer fields (syntax_analyzer.py 18-21), the call stack of the
    \* recursive descent, the status of analyze, and the cursor as it was when the
    \* running iteration of the loop of _parse_program (line 69) began
    syntax_errors, current_token_index, call_stack, syntax_pc, attempt_start,
    \* TypeChecker fields (type_checker.py 39-49), the loop index i of
    \* check_types and its status
    semantic_errors, variables, functions, current_scope_level, basic_types,
    check_i, semantic_pc,
    \* MainWindow._analyze_code: the statement the run has reached
    analyze_pc,
    \* CodeAnalyzerGUI.perform_syntax_analysis (code_analyzer_gui.py 259-346): its
    \* argument, its locals, the number of the last line the loop of line 269 has
    \* taken, and the statement it has reached
    gui_code, gui_errors, recovery_actions, brace_stack, paren_stack, in_panic_mode,
    panic_mode_start, main_brace_line, line_number, gui_pc,
    \* SymbolTable fields (symbol_table.py 19-22), the number of Symbol objects
    \* made so far, and the last call of a method that is called on its own (on
    \* the table, or _expect on the analyzer) with what it returned
    symbols, scope_level, scopes, symbol_count, last_call

tokenizerVars == <<source, position, line, column, current_char, tokenizer_pc>>
lexicalVars == <<lexical_errors>>
syntaxVars == <<syntax_errors, current_token_index, call_stack, syntax_pc, attempt_start>>
semanticVars == <<semantic_errors, variables, functions, current_scope_level,
                  basic_types, check_i, semantic_pc>>
guiVars == <<gui_code, gui_errors, recovery_actions, brace_stack, paren_stack, in_panic_mode,
             panic_mode_start, main_brace_line, line_number, gui_pc>>
analysisVars == <<tokenizerVars, tokens, lexicalVars, syntaxVars, semanticVars, analyze_pc,
                  guiVars>>
symbolVars == <<symbols, scope_level, scopes, symbol_count, last_call>>
vars == <<tokenizerVars, tokens, lexicalVars, syntaxVars, semanticVars, analyze_pc,
          guiVars, symbolVars>>

(***************************************************************************)
(* Bounds of the model.                                                    *)
(***************************************************************************)
\* longest enumerated source text of the tokenizer's specification
MaxSourceLen == 4

\* Python's None
None == "None"


(***************************************************************************)
(* Characters                                                              *)
(***************************************************************************)
Letters == {"a", "b", "c", "d", "e", "f", "g", "h", "i", "j", "k", "l", "m",
            "n", "o", "p", "q", "r", "s", "t", "u", "v", "w", "x", "y", "z",
            "A", "B", "C", "D", "E", "F", "G", "H", "I", "J", "K", "L", "M",
            "N", "O", "P", "Q", "R", "S", "T", "U", "V", "W", "X", "Y", "Z"}
Digits == {"0", "1", "2", "3", "4", "5", "6", "7", "8", "9"}
isspace(c) == c \in {" ", "\t", "\n", "\r", "\f"}
isalpha(c) == c \in Letters
isdigit(c) == c \in Digits
isalnum(c) == isalpha(c) \/ isdigit(c)

(***************************************************************************)
(* Tokens (tokenizer.py 9-57)                                              *)
(***************************************************************************)
Token(type, value, ln, col) ==
    [type |-> type, value |-> value, line |-> ln, column |-> col]

keywords == [w \in {"int", "char", "float", "void", "if", "else", "while",
                    "for", "return"} |->
    CASE w = "int" -> "INT" [] w = "char" -> "CHAR" [] w = "float" -> "FLOAT"
      [] w = "void" -> "VOID" [] w = "if" -> "IF" [] w = "else" -> "ELSE"
      [] w = "while" -> "WHILE" [] w = "for" -> "FOR" [] w = "return" -> "RETURN"]

(***************************************************************************)
(* Tokenizer (tokenizer.py 59-240).  A tokenizer state is the record of    *)
(* the fields position, line, column, current_char; src is self.source.    *)
(***************************************************************************)
\* source[k]
char_at(src, k) == SubSeq(src, k + 1, k + 1)

\* lines 60-65
TokenizerInit(src) ==
    [position |-> 0, line |-> 1, column |-> 1,
     current_char |-> IF Len(src) > 0 THEN char_at(src, 0) ELSE None]

advance(src, t) ==
    LET pos == t.position + 1
        col == t.column + 1
    IN  IF pos >= Len(src)
        THEN [position |-> pos, line |-> t.line, column |-> col,
              current_char |-> None]
        ELSE IF char_at(src, pos) = "\n"
             THEN [position |-> pos, line |-> t.line + 1, column |-> 0,
                   current_char |-> char_at(src, pos)]
             ELSE [position |-> pos, line |-> t.line, column |-> col,
                   current_char |-> char_at(src, pos)]

peek(src, t) ==
    LET peek_pos == t.position + 1
    IN  IF peek_pos >= Len(src) THEN None ELSE char_at(src, peek_pos)

RECURSIVE skip_whitespace(_, _)
skip_whitespace(src, t) ==
    IF t.current_char /= None /\ isspace(t.current_char)
    THEN skip_whitespace(src, advance(src, t))
    ELSE t

\* skip_line_comment that skips one character only
skip_line_comment_once(src, t) == advance(src, t)

\* the loop of line 102
RECURSIVE skip_line_comment(_, _)
skip_line_comment(src, t) ==
    IF t.current_char /= None /\ t.current_char /= "\n"
    THEN skip_line_comment(src, advance(src, t))
    ELSE t

\* the loop of line 107
RECURSIVE skip_block_comment(_, _)
skip_block_comment(src, t) ==
    IF t.current_char /= None
       /\ ~(t.current_char = "*" /\ peek(src, t) = "/")
    THEN skip_block_comment(src, advance(src, t))
    ELSE t

skip_comment(src, t) ==
    IF t.current_char = "/" /\ peek(src, t) = "/"
    THEN skip_line_comment(src, t)
    ELSE IF t.current_char = "/" /\ peek(src, t) = "*"
         THEN LET body == skip_block_comment(src, advance(src, advance(src, t)))
              IN  IF body.current_char /= None
                  THEN advance(src, advance(src, body))
                  ELSE body
         ELSE t

\* the loop of get_identifier (line 125): the text read and the state after it
RECURSIVE identifier_chars(_, _, _)
identifier_chars(src, t, result) ==
    IF t.current_char /= None /\ (isalnum(t.current_char) \/ t.current_char = "_")
    THEN identifier_chars(src, advance(src, t), result \o t.current_char)
    ELSE [result |-> result, t |-> t]

get_identifier(src, t) ==
    LET start_column == t.column
        r == identifier_chars(src, t, "")
        token_type == IF r.result \in DOMAIN keywords
                      THEN keywords[r.result] ELSE "IDENTIFIER"
    IN  [token |-> Token(token_type, r.result, r.t.line, start_column), t |-> r.t]

\* the loop of get_number (line 138)
RECURSIVE number_chars(_, _, _, _)
number_chars(src, t, result, is_float) ==
    IF t.current_char /= None /\ (isdigit(t.current_char) \/ t.current_char = ".")
    THEN IF t.current_char = "." /\ is_float
         THEN [result |-> result, is_float |-> is_float, t |-> t]
         ELSE number_chars(src, advance(src, t), result \o t.current_char,
                           is_float \/ t.current_char = ".")
    ELSE [result |-> result, is_float |-> is_float, t |-> t]

get_number(src, t) ==
    LET start_column == t.column
        r == number_chars(src, t, "", FALSE)
        token_type == IF r.is_float THEN "FLOAT_LITERAL" ELSE "INTEGER"
    IN  [token |-> Token(token_type, r.result, r.t.line, start_column), t |-> r.t]

\* the one-character tokens of lines 172-225
single_char_type(c) ==
    CASE c = "+" -> "PLUS" [] c = "-" -> "MINUS" [] c = "*" -> "MULTIPLY"
      [] c = "/" -> "DIVIDE" [] c = ";" -> "SEMICOLON" [] c = "," -> "COMMA"
      [] c = "(" -> "LPAREN" [] c = ")" -> "RPAREN" [] c = "{" -> "LBRACE"
      [] c = "}" -> "RBRACE" [] c = "[" -> "LBRACKET" [] c = "]" -> "RBRACKET"

\* get_next_token: [raised, token, t]; raised is the SyntaxError of line 228
RECURSIVE get_next_token(_, _)
get_next_token(src, t) ==
    LET c == t.current_char IN
    IF c = None
    THEN [raised |-> FALSE, token |-> Token("EOF", "", t.line, t.column), t |-> t]
    ELSE IF isspace(c)
    THEN get_next_token(src, skip_whitespace(src, t))
    ELSE IF c = "/" /\ peek(src, t) \in {"/", "*"}
    THEN get_next_token(src, skip_comment(src, t))
    ELSE IF isalpha(c) \/ c = "_"
    THEN LET r == get_identifier(src, t)
         IN  [raised |-> FALSE, token |-> r.token, t |-> r.t]
    ELSE IF isdigit(c)
    THEN LET r == get_number(src, t)
         IN  [raised |-> FALSE, token |-> r.token, t |-> r.t]
    ELSE IF c \in {"+", "-", "*", "/", ";", ",", "(", ")", "{", "}", "[", "]"}
    THEN LET a == advance(src, t)
         IN  [raised |-> FALSE,
              token |-> Token(single_char_type(c), c, a.line, a.column - 1),
              t |-> a]
    ELSE IF c = "="
    THEN LET a == advance(src, t)
         IN  IF a.current_char = "="
             THEN LET b == advance(src, a)
                  IN  [raised |-> FALSE,
                       token |-> Token("EQUAL", "==", b.line, b.column - 2),
                       t |-> b]
             ELSE [raised |-> FALSE,
                   token |-> Token("ASSIGN", "=", a.line, a.column - 1),
                   t |-> a]
    ELSE [raised |-> TRUE, token |-> Token("EOF", "", t.line, t.column), t |-> t]

\* tokenize as one call: [raised, tokens, t]
RECURSIVE tokenize_from(_, _, _)
tokenize_from(src, t, toks) ==
    LET r == get_next_token(src, t)
    IN  IF r.raised THEN [raised |-> TRUE, tokens |-> toks, t |-> r.t]
        ELSE IF r.token.type = "EOF"
        THEN [raised |-> FALSE, tokens |-> Append(toks, r.token), t |-> r.t]
        ELSE tokenize_from(src, r.t, Append(toks, r.token))

Tokenize(src) == tokenize_from(src, TokenizerInit(src), <<>>)

(***************************************************************************)
(* Diagnostics: LexicalError (error_detection.py 9-15), SyntaxError        *)
(* (syntax_analyzer.py 9-15) and SemanticError (type_checker.py 30-36) are *)
(* three dataclasses with the same five fields.                            *)
(***************************************************************************)
LexicalError(ln, col, message, severity, suggestion) ==
    [line |-> ln, column |-> col, message |-> message, severity |-> severity,
     suggestion |-> suggestion]

SyntaxError(ln, col, message, severity, suggestion) ==
    [line |-> ln, column |-> col, message |-> message, severity |-> severity,
     suggestion |-> suggestion]

SemanticError(ln, col, message, severity, suggestion) ==
    [line |-> ln, column |-> col, message |-> message, severity |-> severity,
     suggestion |-> suggestion]

(***************************************************************************)
(* String helpers: Python's str methods used by the detector and checker.  *)
(***************************************************************************)
\* s.count(c)
RECURSIVE count(_, _)
count(s, c) ==
    IF Len(s) = 0 THEN 0
    ELSE (IF Head(s) = c THEN 1 ELSE 0) + count(Tail(s), c)

\* s.endswith(c), c one character
endswith(s, c) == Len(s) > 0 /\ SubSeq(s, Len(s), Len(s)) = c

\* the characters of s outside the set ok, in order (set(s) - set(ok))
RECURSIVE chars_not_in(_, _)
chars_not_in(s, ok) ==
    IF Len(s) = 0 THEN ""
    ELSE (IF Head(s) \in ok THEN "" ELSE Head(s)) \o chars_not_in(Tail(s), ok)

(***************************************************************************)
(* LexicalErrorDetector (error_detection.py 17-136)                        *)
(***************************************************************************)
ArithmeticOperators == {"PLUS", "MINUS", "MULTIPLY", "DIVIDE"}

\* the text f"{invalid_chars}" prints a Python set; here its characters in order
_check_identifier(token) ==
    LET invalid_chars == chars_not_in(token.value, Letters \cup Digits \cup {"_"})
    IN  (IF isdigit(Head(token.value))
         THEN <<LexicalError(token.line, token.column,
                    "Identifier cannot start with a number", "error",
                    "Rename '" \o token.value \o "' to start with a letter or underscore")>>
         ELSE <<>>)
        \o
        (IF invalid_chars /= ""
         THEN <<LexicalError(token.line, token.column,
                    "Invalid characters in identifier: " \o invalid_chars, "error",
                    "Remove invalid characters from '" \o token.value \o "'")>>
         ELSE <<>>)

_check_number(token) ==
    IF token.type = "FLOAT_LITERAL"
    THEN (IF count(token.value, ".") > 1
          THEN <<LexicalError(token.line, token.column,
                     "Invalid float literal: multiple decimal points", "error",
                     "Use only one decimal point in float literals")>>
          ELSE <<>>)
         \o
         (IF endswith(token.value, ".")
          THEN <<LexicalError(token.line, token.column,
                     "Invalid float literal: trailing decimal point", "warning",
                     "Add a digit after the decimal point or remove it")>>
          ELSE <<>>)
    ELSE <<>>

\* index is 0-based
_check_operator(token, toks, index) ==
    IF index > 0 /\ toks[index].type \in ArithmeticOperators
    THEN <<LexicalError(token.line, token.column, "Consecutive operators", "error",
               "Remove one of the consecutive operators")>>
    ELSE <<>>

no_semicolon_after == {"LBRACE", "RBRACE", "SEMICOLON", "IF", "ELSE", "WHILE", "FOR"}

need_semicolon_after == {"IDENTIFIER", "INTEGER", "FLOAT_LITERAL", "CHAR_LITERAL",
                         "STRING_LITERAL", "RPAREN", "RBRACKET"}

_should_have_semicolon(prev_token, current_token) ==
    /\ prev_token.type \in need_semicolon_after
    /\ current_token.type \notin no_semicolon_after
    /\ current_token.type /= "SEMICOLON"

\* one iteration of the loop of detect_errors (lines 27-48) for the 0-based i
detect_errors_at(toks, i) ==
    LET token == toks[i + 1]
    IN  (IF token.type = "IDENTIFIER" THEN _check_identifier(token)
         ELSE IF token.type \in {"INTEGER", "FLOAT_LITERAL"} THEN _check_number(token)
         ELSE IF token.type \in ArithmeticOperators THEN _check_operator(token, toks, i)
         ELSE <<>>)
        \o
        (IF i > 0 /\ _should_have_semicolon(toks[i], token)
         THEN <<LexicalError(token.line, token.column, "Missing semicolon", "error",
                    "Add a semicolon at the end of the previous statement")>>
         ELSE <<>>)

RECURSIVE detect_errors_from(_, _, _)
detect_errors_from(toks, i, errors) ==
    IF i >= Len(toks) THEN errors
    ELSE detect_errors_from(toks, i + 1, errors \o detect_errors_at(toks, i))

\* detect_errors: self.errors is cleared, then filled
detect_errors(toks) == detect_errors_from(toks, 0, <<>>)

(***************************************************************************)
(* Values of the fields of an analyzer that is not running.                *)
(***************************************************************************)
EmptyDict == [k \in {} |-> None]

TokenizerIdle ==
    /\ source = "" /\ position = 0 /\ line = 1 /\ column = 1
    /\ current_char = None /\ tokenizer_pc = "idle"

LexicalIdle == lexical_errors = <<>>

SyntaxIdle ==
    /\ syntax_errors = <<>> /\ current_token_index = 0
    /\ call_stack = <<>> /\ syntax_pc = "idle" /\ attempt_start = 0

(***************************************************************************)
(* Tokenizer.tokenize, one iteration of its loop (lines 235-239) a step.   *)
(***************************************************************************)
TokenizerState ==
    [position |-> position, line |-> line, column |-> column,
     current_char |-> current_char]

SetTokenizerState(t) ==
    /\ position' = t.position /\ line' = t.line /\ column' = t.column
    /\ current_char' = t.current_char

\* get_next_token returns a token, which is appended; EOF ends the loop
tokenize ==
    /\ tokenizer_pc = "running"
    /\ LET r == get_next_token(source, TokenizerState)
       IN  /\ ~r.raised
           /\ tokens' = Append(tokens, r.token)
           /\ SetTokenizerState(r.t)
           /\ tokenizer_pc' = IF r.token.type = "EOF" THEN "returned" ELSE "running"
    /\ UNCHANGED <<symbolVars, guiVars, source, lexicalVars, syntaxVars, semanticVars, analyze_pc>>

\* get_next_token raises SyntaxError (line 228), which tokenize does not catch
tokenize_raise ==
    /\ tokenizer_pc = "running"
    /\ LET r == get_next_token(source, TokenizerState)
       IN  /\ r.raised
           /\ SetTokenizerState(r.t)
           /\ tokenizer_pc' = "raised"
    /\ UNCHANGED <<symbolVars, guiVars, source, tokens, lexicalVars, syntaxVars, semanticVars, analyze_pc>>

(***************************************************************************)
(* SyntaxAnalyzer (syntax_analyzer.py 17-353).                             *)
(*                                                                         *)
(* A parser state ps is [idx, errors]: current_token_index and errors.     *)
(* The recursive descent runs on an explicit call stack of frames          *)
(* [fn, at]: fn the method, at the source line of the call the frame waits *)
(* for (0: the method is entered, or is at the head of its loop).  One     *)
(* step runs the top frame up to its next call or to its return; its       *)
(* result is [ps, frames], frames replacing the top frame (none: return).  *)
(***************************************************************************)
\* how far past the token list the cursor is followed (see _parse_statement)
MaxOverrun == 2

Frame(fn, at) == [fn |-> fn, at |-> at]
Result(ps, frames) == [ps |-> ps, frames |-> frames]
Return(ps) == Result(ps, <<>>)

_current_token(toks, idx) ==
    IF idx >= Len(toks) THEN toks[Len(toks)] ELSE toks[idx + 1]

CurrentType(toks, ps) == _current_token(toks, ps.idx).type

\* _next_token without the increment of line 49
_next_token_stay(ps) == ps

_next_token(ps) == [ps EXCEPT !.idx = @ + 1]

\* errors.append(SyntaxError(...)) at the current token
AddSyntaxError(toks, ps, message, suggestion) ==
    [ps EXCEPT !.errors = Append(@,
        SyntaxError(_current_token(toks, ps.idx).line,
                    _current_token(toks, ps.idx).column,
                    message, "error", suggestion))]

\* _expect that also steps over the token that it did not expect
_expect_advancing(toks, ps, token_type, error_message) ==
    IF CurrentType(toks, ps) = token_type
    THEN [ok |-> TRUE, ps |-> _next_token(ps)]
    ELSE [ok |-> FALSE,
          ps |-> _next_token(
                     AddSyntaxError(toks, ps, error_message, "Expected " \o token_type))]

\* _expect: [ok, ps]
_expect(toks, ps, token_type, error_message) ==
    IF CurrentType(toks, ps) = token_type
    THEN [ok |-> TRUE, ps |-> _next_token(ps)]
    ELSE [ok |-> FALSE,
          ps |-> AddSyntaxError(toks, ps, error_message, "Expected " \o token_type)]

\* _parse_parameter_list calls nothing recursive: the parser state it leaves
RECURSIVE _parse_parameter_list_loop(_, _)
_parse_parameter_list_loop(toks, ps) ==
    IF CurrentType(toks, ps) \notin {"INT", "CHAR", "FLOAT"}
    THEN AddSyntaxError(toks, ps, "Invalid parameter type",
                        "Parameter type must be int, char, or float")
    ELSE LET e == _expect(toks, _next_token(ps), "IDENTIFIER", "Expected parameter name")
         IN  IF ~e.ok THEN e.ps
             ELSE IF CurrentType(toks, e.ps) = "COMMA"
                  THEN _parse_parameter_list_loop(toks, _next_token(e.ps))
                  ELSE e.ps

_parse_parameter_list(toks, ps) ==
    IF CurrentType(toks, ps) = "RPAREN" THEN ps
    ELSE _parse_parameter_list_loop(toks, ps)

\* lines 69-73
_parse_program_step(toks, ps, at) ==
    IF CurrentType(toks, ps) = "EOF" THEN Return(ps)
    ELSE IF CurrentType(toks, ps) \in {"INT", "CHAR", "FLOAT", "VOID"}
    THEN Result(ps, <<Frame("_parse_program", 0), Frame("_parse_function_declaration", 0)>>)
    ELSE Result(ps, <<Frame("_parse_program", 0), Frame("_parse_statement", 0)>>)

\* lines 78-101
_parse_function_declaration_step(toks, ps, at) ==
    IF at = 0
    THEN LET e1 == _expect(toks, _next_token(ps), "IDENTIFIER", "Expected function name")
             e2 == _expect(toks, e1.ps, "LPAREN", "Expected '(' after function name")
             e3 == _expect(toks, _parse_parameter_list(toks, e2.ps), "RPAREN",
                           "Expected ')' after parameter list")
             e4 == _expect(toks, e3.ps, "LBRACE", "Expected '{' for function body")
         IN  IF ~e1.ok THEN Return(e1.ps)
             ELSE IF ~e2.ok THEN Return(e2.ps)
             ELSE IF ~e3.ok THEN Return(e3.ps)
             ELSE IF ~e4.ok THEN Return(e4.ps)
             ELSE Result(e4.ps, <<Frame("_parse_function_declaration", 98),
                                  Frame("_parse_block", 0)>>)
    ELSE Return(_expect(toks, ps, "RBRACE", "Expected '}' to end function body").ps)

\* lines 134-135
_parse_block_step(toks, ps, at) ==
    IF CurrentType(toks, ps) /= "RBRACE"
    THEN Result(ps, <<Frame("_parse_block", 0), Frame("_parse_statement", 0)>>)
    ELSE Return(ps)

\* lines 139-161.  Each call is the last thing _parse_statement does, so the
\* callee's frame takes the place of its own.  In the last branch the cursor
\* and the error list are followed up to MaxOverrun tokens past the list:
\* from there on _current_token is the last token whatever the cursor is.
_parse_statement_step(toks, ps, at) ==
    LET type == CurrentType(toks, ps)
    IN  IF type = "IF" THEN Result(ps, <<Frame("_parse_if_statement", 0)>>)
        ELSE IF type = "WHILE" THEN Result(ps, <<Frame("_parse_while_statement", 0)>>)
        ELSE IF type = "FOR" THEN Result(ps, <<Frame("_parse_for_statement", 0)>>)
        ELSE IF type = "RETURN" THEN Result(ps, <<Frame("_parse_return_statement", 0)>>)
        ELSE IF type \in {"INT", "CHAR", "FLOAT"}
        THEN Result(ps, <<Frame("_parse_variable_declaration", 0)>>)
        ELSE IF type = "IDENTIFIER"
        THEN Result(ps, <<Frame("_parse_assignment_or_function_call", 0)>>)
        ELSE IF ps.idx >= Len(toks) + MaxOverrun THEN Return(ps)
        ELSE Return(_next_token(AddSyntaxError(toks, ps, "Invalid statement",
                                               "Expected a valid statement")))

\* lines 165-192
_parse_if_statement_step(toks, ps, at) ==
    IF at = 0
    THEN LET e == _expect(toks, _next_token(ps), "LPAREN", "Expected '(' after if")
         IN  IF ~e.ok THEN Return(e.ps)
             ELSE Result(e.ps, <<Frame("_parse_if_statement", 170),
                                 Frame("_parse_expression", 0)>>)
    ELSE IF at = 170
    THEN LET e1 == _expect(toks, ps, "RPAREN", "Expected ')' after condition")
             e2 == _expect(toks, e1.ps, "LBRACE", "Expected '{' for if body")
         IN  IF ~e1.ok THEN Return(e1.ps)
             ELSE IF ~e2.ok THEN Return(e2.ps)
             ELSE Result(e2.ps, <<Frame("_parse_if_statement", 178),
                                  Frame("_parse_block", 0)>>)
    ELSE IF at = 178
    THEN LET e1 == _expect(toks, ps, "RBRACE", "Expected '}' to end if body")
             e2 == _expect(toks, _next_token(e1.ps), "LBRACE", "Expected '{' for else body")
         IN  IF ~e1.ok THEN Return(e1.ps)
             ELSE IF CurrentType(toks, e1.ps) /= "ELSE" THEN Return(e1.ps)
             ELSE IF ~e2.ok THEN Return(e2.ps)
             ELSE Result(e2.ps, <<Frame("_parse_if_statement", 189),
                                  Frame("_parse_block", 0)>>)
    ELSE Return(_expect(toks, ps, "RBRACE", "Expected '}' to end else body").ps)

\* lines 196-212
_parse_while_statement_step(toks, ps, at) ==
    IF at = 0
    THEN LET e == _expect(toks, _next_token(ps), "LPAREN", "Expected '(' after while")
         IN  IF ~e.ok THEN Return(e.ps)
             ELSE Result(e.ps, <<Frame("_parse_while_statement", 201),
                                 Frame("_parse_expression", 0)>>)
    ELSE IF at = 201
    THEN LET e1 == _expect(toks, ps, "RPAREN", "Expected ')' after condition")
             e2 == _expect(toks, e1.ps, "LBRACE", "Expected '{' for while body")
         IN  IF ~e1.ok THEN Return(e1.ps)
             ELSE IF ~e2.ok THEN Return(e2.ps)
             ELSE Result(e2.ps, <<Frame("_parse_while_statement", 209),
                                  Frame("_parse_block", 0)>>)
    ELSE Return(_expect(toks, ps, "RBRACE", "Expected '}' to end while body").ps)

\* lines 216-242
_parse_for_statement_step(toks, ps, at) ==
    IF at = 0
    THEN LET e == _expect(toks, _next_token(ps), "LPAREN", "Expected '(' after for")
         IN  IF ~e.ok THEN Return(e.ps)
             ELSE Result(e.ps, <<Frame("_parse_for_statement", 222),
                                 Frame("_parse_statement", 0)>>)
    ELSE IF at = 222
    THEN Result(ps, <<Frame("_parse_for_statement", 225), Frame("_parse_expression", 0)>>)
    ELSE IF at = 225
    THEN LET e == _expect(toks, ps, "SEMICOLON", "Expected ';' after for condition")
         IN  IF ~e.ok THEN Return(e.ps)
             ELSE Result(e.ps, <<Frame("_parse_for_statement", 231),
                                 Frame("_parse_expression", 0)>>)
    ELSE IF at = 231
    THEN LET e1 == _expect(toks, ps, "RPAREN", "Expected ')' after for increment")
             e2 == _expect(toks, e1.ps, "LBRACE", "Expected '{' for for body")
         IN  IF ~e1.ok THEN Return(e1.ps)
             ELSE IF ~e2.ok THEN Return(e2.ps)
             ELSE Result(e2.ps, <<Frame("_parse_for_statement", 239),
                                  Frame("_parse_block", 0)>>)
    ELSE Return(_expect(toks, ps, "RBRACE", "Expected '}' to end for body").ps)

\* lines 246-252
_parse_return_statement_step(toks, ps, at) ==
    IF at = 0 /\ CurrentType(toks, _next_token(ps)) /= "SEMICOLON"
    THEN Result(_next_token(ps), <<Frame("_parse_return_statement", 249),
                                   Frame("_parse_expression", 0)>>)
    ELSE Return(_expect(toks, IF at = 0 THEN _next_token(ps) ELSE ps, "SEMICOLON",
                        "Expected ';' after return statement").ps)

\* lines 256-267
_parse_variable_declaration_step(toks, ps, at) ==
    LET e == _expect(toks, _next_token(ps), "IDENTIFIER", "Expected variable name")
    IN  IF at = 0 /\ ~e.ok THEN Return(e.ps)
        ELSE IF at = 0 /\ CurrentType(toks, e.ps) = "ASSIGN"
        THEN Result(_next_token(e.ps), <<Frame("_parse_variable_declaration", 264),
                                         Frame("_parse_expression", 0)>>)
        ELSE Return(_expect(toks, IF at = 0 THEN e.ps ELSE ps, "SEMICOLON",
                            "Expected ';' after variable declaration").ps)

\* lines 271-292
_parse_assignment_or_function_call_step(toks, ps, at) ==
    IF at = 0
    THEN LET s == _next_token(ps)
             e == _expect(toks, s, "ASSIGN", "Expected '=' for assignment")
         IN  IF CurrentType(toks, s) = "LPAREN"
             THEN Result(_next_token(s), <<Frame("_parse_assignment_or_function_call", 277),
                                           Frame("_parse_argument_list", 0)>>)
             ELSE IF ~e.ok THEN Return(e.ps)
             ELSE Result(e.ps, <<Frame("_parse_assignment_or_function_call", 289),
                                 Frame("_parse_expression", 0)>>)
    ELSE IF at = 277
    THEN LET e1 == _expect(toks, ps, "RPAREN", "Expected ')' after function arguments")
             e2 == _expect(toks, e1.ps, "SEMICOLON", "Expected ';' after function call")
         IN  IF ~e1.ok THEN Return(e1.ps) ELSE Return(e2.ps)
    ELSE Return(_expect(toks, ps, "SEMICOLON", "Expected ';' after assignment").ps)

\* lines 296-305
_parse_argument_list_step(toks, ps, at) ==
    IF at = 0
    THEN IF CurrentType(toks, ps) = "RPAREN" THEN Return(ps)
         ELSE Result(ps, <<Frame("_parse_argument_list", 300),
                           Frame("_parse_expression", 0)>>)
    ELSE IF CurrentType(toks, ps) = "COMMA"
         THEN Result(_next_token(ps), <<Frame("_parse_argument_list", 300),
                                        Frame("_parse_expression", 0)>>)
         ELSE Return(ps)

\* lines 309-313
_parse_expression_step(toks, ps, at) ==
    IF at = 0
    THEN Result(ps, <<Frame("_parse_expression", 309), Frame("_parse_term", 0)>>)
    ELSE IF CurrentType(toks, ps) \in {"PLUS", "MINUS"}
         THEN Result(_next_token(ps), <<Frame("_parse_expression", 313),
                                        Frame("_parse_term", 0)>>)
         ELSE Return(ps)

\* lines 317-321
_parse_term_step(toks, ps, at) ==
    IF at = 0
    THEN Result(ps, <<Frame("_parse_term", 317), Frame("_parse_factor", 0)>>)
    ELSE IF CurrentType(toks, ps) \in {"MULTIPLY", "DIVIDE"}
         THEN Result(_next_token(ps), <<Frame("_parse_term", 321),
                                        Frame("_parse_factor", 0)>>)
         ELSE Return(ps)

\* lines 325-353
_parse_factor_step(toks, ps, at) ==
    LET type == CurrentType(toks, ps)
    IN  IF at = 0 /\ type = "IDENTIFIER"
        THEN IF CurrentType(toks, _next_token(ps)) = "LPAREN"
             THEN Result(_next_token(_next_token(ps)),
                         <<Frame("_parse_factor", 333), Frame("_parse_argument_list", 0)>>)
             ELSE Return(_next_token(ps))
        ELSE IF at = 0 /\ type \in {"INTEGER", "FLOAT_LITERAL", "CHAR_LITERAL"}
        THEN Return(_next_token(ps))
        ELSE IF at = 0 /\ type = "LPAREN"
        THEN Result(_next_token(ps), <<Frame("_parse_factor", 341),
                                       Frame("_parse_expression", 0)>>)
        ELSE IF at = 0
        THEN Return(_next_token(AddSyntaxError(toks, ps, "Invalid expression",
                                               "Expected a valid expression")))
        ELSE IF at = 333
        THEN Return(_expect(toks, ps, "RPAREN", "Expected ')' after function arguments").ps)
        ELSE Return(_expect(toks, ps, "RPAREN", "Expected ')' after expression").ps)

\* the frame that is running
Top == call_stack[Len(call_stack)]

\* the analyzer's fields that the methods change
ParserState == [idx |-> current_token_index, errors |-> syntax_errors]

\* the method fn is the one running
Running(fn) == syntax_pc = "running" /\ call_stack /= <<>> /\ Top.fn = fn

\* one step of the running frame had the result r: its frames replace the top frame
SyntaxStep(r) ==
    /\ current_token_index' = r.ps.idx
    /\ syntax_errors' = r.ps.errors
    /\ call_stack' = SubSeq(call_stack, 1, Len(call_stack) - 1) \o r.frames
    /\ attempt_start' = IF Top.fn = "_parse_program" THEN current_token_index
                        ELSE attempt_start
    \* _parse_program returned: analyze returns self.errors (39)
    /\ syntax_pc' = IF Len(call_stack) = 1 /\ r.frames = <<>> THEN "returned" ELSE "running"
    /\ UNCHANGED <<symbolVars, guiVars, tokenizerVars, tokens, lexicalVars, semanticVars, analyze_pc>>

_parse_program ==
    /\ Running("_parse_program")
    /\ SyntaxStep(_parse_program_step(tokens, ParserState, Top.at))

_parse_function_declaration ==
    /\ Running("_parse_function_declaration")
    /\ SyntaxStep(_parse_function_declaration_step(tokens, ParserState, Top.at))

_parse_block ==
    /\ Running("_parse_block")
    /\ SyntaxStep(_parse_block_step(tokens, ParserState, Top.at))

_parse_statement ==
    /\ Running("_parse_statement")
    /\ SyntaxStep(_parse_statement_step(tokens, ParserState, Top.at))

_parse_if_statement ==
    /\ Running("_parse_if_statement")
    /\ SyntaxStep(_parse_if_statement_step(tokens, ParserState, Top.at))

_parse_while_statement ==
    /\ Running("_parse_while_statement")
    /\ SyntaxStep(_parse_while_statement_step(tokens, ParserState, Top.at))

_parse_for_statement ==
    /\ Running("_parse_for_statement")
    /\ SyntaxStep(_parse_for_statement_step(tokens, ParserState, Top.at))

_parse_return_statement ==
    /\ Running("_parse_return_statement")
    /\ SyntaxStep(_parse_return_statement_step(tokens, ParserState, Top.at))

_parse_variable_declaration ==
    /\ Running("_parse_variable_declaration")
    /\ SyntaxStep(_parse_variable_declaration_step(tokens, ParserState, Top.at))

_parse_assignment_or_function_call ==
    /\ Running("_parse_assignment_or_function_call")
    /\ SyntaxStep(_parse_assignment_or_function_call_step(tokens, ParserState, Top.at))

_parse_argument_list ==
    /\ Running("_parse_argument_list")
    /\ SyntaxStep(_parse_argument_list_step(tokens, ParserState, Top.at))

_parse_expression ==
    /\ Running("_parse_expression")
    /\ SyntaxStep(_parse_expression_step(tokens, ParserState, Top.at))

_parse_term ==
    /\ Running("_parse_term")
    /\ SyntaxStep(_parse_term_step(tokens, ParserState, Top.at))

_parse_factor ==
    /\ Running("_parse_factor")
    /\ SyntaxStep(_parse_factor_step(tokens, ParserState, Top.at))

\* the steps of SyntaxAnalyzer.analyze after its reset (lines 25-27)
SyntaxNext ==
    \/ _parse_program
    \/ _parse_function_declaration
    \/ _parse_block
    \/ _parse_statement
    \/ _parse_if_statement
    \/ _parse_while_statement
    \/ _parse_for_statement
    \/ _parse_return_statement
    \/ _parse_variable_declaration
    \/ _parse_assignment_or_function_call
    \/ _parse_argument_list
    \/ _parse_expression
    \/ _parse_term
    \/ _parse_factor

\* analyze is called: lines 25-27 and the call of line 30
SyntaxStarted ==
    /\ syntax_errors = <<>>
    /\ current_token_index = 0
    /\ call_stack = <<Frame("_parse_program", 0)>>
    /\ syntax_pc = "running"
    /\ attempt_start = 0

\* most errors, and most tokens before EOF, of the analyzer that _expect is called on
MaxExpectErrors == 1
MaxExpectTokens == 2

\* _expect is called on its own (lines 52-65), with the kind it is to find
expect_call ==
    /\ syntax_pc = "expect"
    /\ Len(syntax_errors) < MaxExpectErrors
    /\ current_token_index < Len(tokens) + MaxOverrun
    /\ \E token_type \in {"IDENTIFIER", "RBRACE", "EOF"} :
           LET r == _expect(tokens, ParserState, token_type, "Expected a token")
           IN  /\ current_token_index' = r.ps.idx
               /\ syntax_errors' = r.ps.errors
               /\ last_call' = [op |-> "_expect", token_type |-> token_type,
                                result |-> r.ok]
    /\ UNCHANGED <<call_stack, syntax_pc, attempt_start, symbols, scope_level, scopes,
                   symbol_count, guiVars, tokenizerVars, tokens, lexicalVars,
                   semanticVars, analyze_pc>>

(***************************************************************************)
(* TypeChecker (type_checker.py 38-308).                                   *)
(*                                                                         *)
(* A checker state cs is the record of the fields errors, variables,       *)
(* functions, current_scope_level and basic_types.  The Type objects of    *)
(* basic_types are shared: a Variable's or a Function's type is the key of *)
(* its Type object in basic_types, and what is read through it is read     *)
(* from basic_types.  A method returns [i, cs, raised]: the index it       *)
(* returns, the state it leaves, and whether it raised IndexError          *)
(* (tokens[k] with k >= len(tokens)) instead of returning.                 *)
(***************************************************************************)
\* str(n) for n >= 0
RECURSIVE str(_)
str(n) ==
    LET digit == CASE n % 10 = 0 -> "0" [] n % 10 = 1 -> "1" [] n % 10 = 2 -> "2"
                   [] n % 10 = 3 -> "3" [] n % 10 = 4 -> "4" [] n % 10 = 5 -> "5"
                   [] n % 10 = 6 -> "6" [] n % 10 = 7 -> "7" [] n % 10 = 8 -> "8"
                   [] n % 10 = 9 -> "9"
    IN  IF n < 10 THEN digit ELSE str(n \div 10) \o digit

\* int(s) for a string of digits, acc the value of the digits read
RECURSIVE int_from(_, _)
int_from(s, acc) ==
    IF Len(s) = 0 THEN acc
    ELSE LET c == Head(s)
             d == CASE c = "0" -> 0 [] c = "1" -> 1 [] c = "2" -> 2 [] c = "3" -> 3
                    [] c = "4" -> 4 [] c = "5" -> 5 [] c = "6" -> 6 [] c = "7" -> 7
                    [] c = "8" -> 8 [] c = "9" -> 9
         IN  int_from(Tail(s), 10 * acc + d)

int(s) == int_from(s, 0)

\* dict assignment d[k] = v
Put(d, k, v) == [x \in DOMAIN d \cup {k} |-> IF x = k THEN v ELSE d[x]]

Type(name) ==
    [name |-> name, is_array |-> FALSE, array_size |-> None, is_pointer |-> FALSE]

Variable(name, type, is_initialized, level) ==
    [name |-> name, type |-> type, is_initialized |-> is_initialized,
     scope_level |-> level]

Function(name, return_type, parameters, is_defined) ==
    [name |-> name, return_type |-> return_type, parameters |-> parameters,
     is_defined |-> is_defined]

\* lines 44-49
BasicTypesInit == [t \in {"int", "char", "float", "void"} |-> Type(t)]

Ok(i, cs) == [i |-> i, cs |-> cs, raised |-> FALSE]
Raise(i, cs) == [i |-> i, cs |-> cs, raised |-> TRUE]

\* self.errors.append(SemanticError(...)) at token
AddSemanticError(cs, token, message, suggestion) ==
    [cs EXCEPT !.errors = Append(@,
        SemanticError(token.line, token.column, message, "error", suggestion))]

\* the statements after a call that returned r, or r itself when the call raised
Bind(r, k(_)) == IF r.raised THEN r ELSE k(r)

\* the statements after a value v was computed
With(v, k(_)) == k(v)

\* the step of the method that the frame is in
frame_step(toks, ps, frame) ==
    CASE frame.fn = "_parse_program" -> _parse_program_step(toks, ps, frame.at)
      [] frame.fn = "_parse_function_declaration" -> _parse_function_declaration_step(toks, ps, frame.at)
      [] frame.fn = "_parse_block" -> _parse_block_step(toks, ps, frame.at)
      [] frame.fn = "_parse_statement" -> _parse_statement_step(toks, ps, frame.at)
      [] frame.fn = "_parse_if_statement" -> _parse_if_statement_step(toks, ps, frame.at)
      [] frame.fn = "_parse_while_statement" -> _parse_while_statement_step(toks, ps, frame.at)
      [] frame.fn = "_parse_for_statement" -> _parse_for_statement_step(toks, ps, frame.at)
      [] frame.fn = "_parse_return_statement" -> _parse_return_statement_step(toks, ps, frame.at)
      [] frame.fn = "_parse_variable_declaration" -> _parse_variable_declaration_step(toks, ps, frame.at)
      [] frame.fn = "_parse_assignment_or_function_call" -> _parse_assignment_or_function_call_step(toks, ps, frame.at)
      [] frame.fn = "_parse_argument_list" -> _parse_argument_list_step(toks, ps, frame.at)
      [] frame.fn = "_parse_expression" -> _parse_expression_step(toks, ps, frame.at)
      [] frame.fn = "_parse_term" -> _parse_term_step(toks, ps, frame.at)
      [] frame.fn = "_parse_factor" -> _parse_factor_step(toks, ps, frame.at)

\* the call stack run until _parse_program has returned: the analyzer's errors
RECURSIVE analyze_from(_, _, _)
analyze_from(toks, ps, stack) ==
    IF stack = <<>> THEN ps.errors
    ELSE With(frame_step(toks, ps, stack[Len(stack)]),
              LAMBDA r : analyze_from(toks, r.ps,
                             SubSeq(stack, 1, Len(stack) - 1) \o r.frames))

\* analyze as one call (lines 25-39), on token lists on which it returns
analyze(toks) ==
    analyze_from(toks, [idx |-> 0, errors |-> <<>>], <<Frame("_parse_program", 0)>>)

RECURSIVE _check_expression(_, _, _, _)
RECURSIVE _check_function_call(_, _, _)
RECURSIVE _check_variable_usage(_, _, _)

\* the loop of lines 303-306, entered with the index i
RECURSIVE _check_expression_operators(_, _, _, _)
_check_expression_operators(toks, i, expected_type, cs) ==
    IF i < Len(toks) /\ toks[i + 1].type \in {"PLUS", "MINUS", "MULTIPLY", "DIVIDE"}
    THEN Bind(_check_expression(toks, i + 1, expected_type, cs),
              LAMBDA r : _check_expression_operators(toks, r.i, expected_type, r.cs))
    ELSE Ok(i, cs)

\* the literal branch, lines 271-294
LiteralMismatch(token, expected_type, cs) ==
    LET name == cs.basic_types[expected_type].name
        got == CASE token.type = "INTEGER" -> <<"int", "integer">>
                 [] token.type = "FLOAT_LITERAL" -> <<"float", "float">>
                 [] token.type = "CHAR_LITERAL" -> <<"char", "char">>
    IN  IF name /= got[1]
        THEN AddSemanticError(cs, token,
                 "Type mismatch: expected " \o name \o ", got " \o got[1],
                 "Convert the " \o got[2] \o " to " \o name)
        ELSE cs

\* lines 263-300: the first operand of the expression at the index i
_check_expression_operand(toks, i, expected_type, cs) ==
    LET token == toks[i + 1]
    IN  IF token.type = "IDENTIFIER"
        THEN IF i + 1 < Len(toks) /\ toks[i + 2].type = "LPAREN"
             THEN _check_function_call(toks, i, cs)
             ELSE _check_variable_usage(toks, i, cs)
        ELSE IF token.type \in {"INTEGER", "FLOAT_LITERAL", "CHAR_LITERAL"}
        THEN Ok(i + 1, LiteralMismatch(token, expected_type, cs))
        ELSE IF token.type = "LPAREN"
        THEN Bind(_check_expression(toks, i + 1, expected_type, cs),
                  LAMBDA r : Ok(r.i + 1, r.cs))
        ELSE Ok(i, cs)

_check_expression(toks, start_index, expected_type, cs) ==
    \* tokens[i] of line 261
    IF start_index >= Len(toks) THEN Raise(start_index, cs)
    ELSE Bind(_check_expression_operand(toks, start_index, expected_type, cs),
              LAMBDA r : _check_expression_operators(toks, r.i, expected_type, r.cs))

\* the loop of lines 189-205: [i, cs, raised, param_index]
RECURSIVE _check_function_call_arguments(_, _, _, _, _, _)
_check_function_call_arguments(toks, i, param_index, function, function_name, cs) ==
    IF i >= Len(toks) THEN [i |-> i, cs |-> cs, raised |-> TRUE, param_index |-> param_index]
    ELSE IF toks[i + 1].type = "RPAREN"
    THEN [i |-> i, cs |-> cs, raised |-> FALSE, param_index |-> param_index]
    ELSE IF param_index >= Len(function.parameters)
    THEN [i |-> i,
          cs |-> AddSemanticError(cs, toks[i + 1],
                     "Too many arguments in call to '" \o function_name \o "'",
                     "Function expects " \o str(Len(function.parameters)) \o " arguments"),
          raised |-> FALSE, param_index |-> param_index]
    ELSE With(_check_expression(toks, i, function.parameters[param_index + 1].type, cs),
              LAMBDA r :
                  IF r.raised \/ r.i >= Len(toks)
                  THEN [i |-> r.i, cs |-> r.cs, raised |-> TRUE,
                        param_index |-> param_index + 1]
                  ELSE _check_function_call_arguments(toks,
                           IF toks[r.i + 1].type = "COMMA" THEN r.i + 1 ELSE r.i,
                           param_index + 1, function, function_name, r.cs))

_check_function_call(toks, start_index, cs) ==
    LET function_name == toks[start_index + 1].value
    IN  IF function_name \notin DOMAIN cs.functions
        THEN Ok(start_index + 1,
                AddSemanticError(cs, toks[start_index + 1],
                    "Function '" \o function_name \o "' is not declared",
                    "Declare the function before using it"))
        ELSE With(_check_function_call_arguments(toks, start_index + 2, 0,
                      cs.functions[function_name], function_name, cs),
                  LAMBDA r :
                      IF r.raised THEN Raise(r.i, r.cs)
                      ELSE IF r.param_index < Len(cs.functions[function_name].parameters)
                      THEN Ok(r.i + 1,
                              AddSemanticError(r.cs, toks[start_index + 1],
                                  "Too few arguments in call to '" \o function_name \o "'",
                                  "Function expects "
                                      \o str(Len(cs.functions[function_name].parameters))
                                      \o " arguments"))
                      ELSE Ok(r.i + 1, r.cs))

\* lines 237-248, entered with the index i after the name
_check_variable_usage_access(toks, i, var_name, cs) ==
    IF i < Len(toks) /\ toks[i + 1].type = "LBRACKET"
    THEN Bind(_check_expression(toks, i + 1, "int",
                  IF ~cs.basic_types[cs.variables[var_name].type].is_array
                  THEN AddSemanticError(cs, toks[i + 1],
                           "Variable '" \o var_name \o "' is not an array",
                           "Remove array access or declare as array")
                  ELSE cs),
              LAMBDA r : Ok(r.i + 1, r.cs))
    ELSE Ok(i, cs)

_check_variable_usage(toks, start_index, cs) ==
    LET var_name == toks[start_index + 1].value
    IN  IF var_name \notin DOMAIN cs.variables
        THEN Ok(start_index + 1,
                AddSemanticError(cs, toks[start_index + 1],
                    "Variable '" \o var_name \o "' is not declared",
                    "Declare the variable before using it"))
        ELSE Bind(_check_variable_usage_access(toks, start_index + 1, var_name, cs),
                  LAMBDA access :
                      \* lines 251-254
                      IF access.i < Len(toks) /\ toks[access.i + 1].type = "ASSIGN"
                      THEN Bind(_check_expression(toks, access.i + 1,
                                    cs.variables[var_name].type, access.cs),
                                LAMBDA r :
                                    Ok(r.i, [r.cs EXCEPT
                                        !.variables[var_name].is_initialized = TRUE]))
                      ELSE access)

_check_variable_declaration(toks, start_index, cs) ==
    \* tokens[start_index + 1] of line 132
    IF start_index + 1 >= Len(toks) THEN Raise(start_index, cs)
    ELSE
    LET var_type == toks[start_index + 1].value
        var_name == toks[start_index + 2].value
        \* lines 135-142
        cs1 == IF var_name \in DOMAIN cs.variables
                  /\ cs.variables[var_name].scope_level = cs.current_scope_level
               THEN AddSemanticError(cs, toks[start_index + 1],
                        "Variable '" \o var_name \o "' is already declared in this scope",
                        "Rename the variable or remove the duplicate declaration")
               ELSE cs
        i0 == start_index + 2
        is_array == i0 < Len(toks) /\ toks[i0 + 1].type = "LBRACKET"
        array_size == IF is_array /\ toks[i0 + 2].type = "INTEGER"
                      THEN int(toks[i0 + 2].value) ELSE None
        i1 == IF is_array THEN i0 + 3 ELSE i0
        is_initialized == i1 < Len(toks) /\ toks[i1 + 1].type = "ASSIGN"
    IN  \* tokens[i] of line 152
        IF is_array /\ i0 + 1 >= Len(toks) THEN Raise(i0 + 1, cs1)
        ELSE Bind(IF is_initialized
                  THEN _check_expression(toks, i1 + 1, var_type, cs1)
                  ELSE Ok(i1, cs1),
                  LAMBDA r :
                      Ok(r.i,
                         [r.cs EXCEPT
                             \* lines 164-165 write the shared Type object
                             !.basic_types[var_type].is_array = is_array,
                             !.basic_types[var_type].array_size = array_size,
                             !.variables = Put(@, var_name,
                                 Variable(var_name, var_type, is_initialized,
                                          r.cs.current_scope_level))]))

\* the loop of lines 98-107: [i, parameters, raised]
RECURSIVE _check_function_declaration_parameters(_, _, _, _)
_check_function_declaration_parameters(toks, i, parameters, cs) ==
    IF i >= Len(toks) THEN [i |-> i, parameters |-> parameters, raised |-> TRUE]
    ELSE IF toks[i + 1].type = "RPAREN"
    THEN [i |-> i, parameters |-> parameters, raised |-> FALSE]
    ELSE IF toks[i + 1].type \in {"INT", "CHAR", "FLOAT"}
    THEN IF i + 1 >= Len(toks)
         THEN [i |-> i, parameters |-> parameters, raised |-> TRUE]
         ELSE _check_function_declaration_parameters(toks, i + 2,
                  Append(parameters,
                         Variable(toks[i + 2].value, toks[i + 1].value, TRUE,
                                  cs.current_scope_level)),
                  cs)
    ELSE _check_function_declaration_parameters(toks, i + 1, parameters, cs)

\* the loop of lines 116-124
RECURSIVE _check_function_declaration_body(_, _, _)
_check_function_declaration_body(toks, i, cs) ==
    IF i >= Len(toks) THEN Raise(i, cs)
    ELSE IF toks[i + 1].type = "RBRACE" THEN Ok(i, cs)
    ELSE Bind(IF toks[i + 1].type \in {"INT", "CHAR", "FLOAT"}
              THEN _check_variable_declaration(toks, i, cs)
              ELSE IF toks[i + 1].type = "IDENTIFIER"
              THEN IF i + 1 < Len(toks) /\ toks[i + 2].type = "LPAREN"
                   THEN _check_function_call(toks, i, cs)
                   ELSE _check_variable_usage(toks, i, cs)
              ELSE Ok(i, cs),
              LAMBDA r : _check_function_declaration_body(toks, r.i + 1, r.cs))

\* _check_function_declaration keeping the signature that a name was first
\* declared with
_check_function_declaration_first(toks, start_index, cs) ==
    LET return_type == toks[start_index + 1].value
        function_name == toks[start_index + 2].value
        cs1 == IF function_name \in DOMAIN cs.functions
               THEN AddSemanticError(cs, toks[start_index + 1],
                        "Function '" \o function_name \o "' is already declared",
                        "Rename the function or remove the duplicate declaration")
               ELSE cs
    IN  With(_check_function_declaration_parameters(toks, start_index + 3, <<>>, cs1),
             LAMBDA p :
                 IF p.raised THEN Raise(p.i, cs1)
                 ELSE Bind(_check_function_declaration_body(toks, p.i + 2,
                               [cs1 EXCEPT
                                   !.functions =
                                       IF function_name \in DOMAIN @ THEN @
                                       ELSE Put(@, function_name,
                                                Function(function_name, return_type,
                                                         p.parameters, FALSE)),
                                   !.current_scope_level = @ + 1]),
                           LAMBDA r :
                               Ok(r.i, [r.cs EXCEPT !.current_scope_level = @ - 1])))

_check_function_declaration(toks, start_index, cs) ==
    LET return_type == toks[start_index + 1].value
        function_name == toks[start_index + 2].value
        \* lines 85-92
        cs1 == IF function_name \in DOMAIN cs.functions
               THEN AddSemanticError(cs, toks[start_index + 1],
                        "Function '" \o function_name \o "' is already declared",
                        "Rename the function or remove the duplicate declaration")
               ELSE cs
    IN  With(_check_function_declaration_parameters(toks, start_index + 3, <<>>, cs1),
             LAMBDA p :
                 IF p.raised THEN Raise(p.i, cs1)
                 ELSE Bind(_check_function_declaration_body(toks, p.i + 2,
                               \* lines 110-114
                               [cs1 EXCEPT
                                   !.functions = Put(@, function_name,
                                       Function(function_name, return_type,
                                                p.parameters, FALSE)),
                                   !.current_scope_level = @ + 1]),
                           LAMBDA r :
                               Ok(r.i, [r.cs EXCEPT !.current_scope_level = @ - 1])))

\* one iteration of the loop of check_types, lines 60-75
check_types_iteration(toks, i, cs) ==
    Bind(IF toks[i + 1].type \in {"INT", "CHAR", "FLOAT", "VOID"}
         THEN IF i + 2 < Len(toks) /\ toks[i + 3].type = "LPAREN"
              THEN _check_function_declaration(toks, i, cs)
              ELSE _check_variable_declaration(toks, i, cs)
         ELSE IF toks[i + 1].type = "IDENTIFIER"
         THEN IF i + 1 < Len(toks) /\ toks[i + 2].type = "LPAREN"
              THEN _check_function_call(toks, i, cs)
              ELSE _check_variable_usage(toks, i, cs)
         ELSE Ok(i, cs),
         LAMBDA r : Ok(r.i + 1, r.cs))

\* check_types without the statements of lines 53-56
check_types_keep(cs) == cs

\* lines 53-56: what check_types resets; basic_types is not reset
check_types_reset(cs) ==
    [cs EXCEPT !.errors = <<>>, !.variables = EmptyDict, !.functions = EmptyDict,
               !.current_scope_level = 0]

RECURSIVE check_types_from(_, _, _)
check_types_from(toks, i, cs) ==
    IF i >= Len(toks) THEN Ok(i, cs)
    ELSE Bind(check_types_iteration(toks, i, cs),
              LAMBDA r : check_types_from(toks, r.i, r.cs))

\* check_types as one call on a checker in the state cs
check_types(toks, cs) == check_types_from(toks, 0, check_types_reset(cs))

CheckerState ==
    [errors |-> semantic_errors, variables |-> variables, functions |-> functions,
     current_scope_level |-> current_scope_level, basic_types |-> basic_types]

SetCheckerState(cs) ==
    /\ semantic_errors' = cs.errors
    /\ variables' = cs.variables
    /\ functions' = cs.functions
    /\ current_scope_level' = cs.current_scope_level
    /\ basic_types' = cs.basic_types

\* the call returned r: the checker is left as the call left it
Returns(r) == ~r.raised /\ SetCheckerState(r.cs) /\ check_i' = r.i

\* the call raised IndexError: the checker is left as it was when it raised, and
\* the i of check_types where the iteration began
Raises(r) == r.raised /\ SetCheckerState(r.cs) /\ check_i' = check_i

\* a fresh TypeChecker (lines 39-49)
SemanticIdle ==
    /\ semantic_errors = <<>> /\ variables = EmptyDict /\ functions = EmptyDict
    /\ current_scope_level = 0 /\ basic_types = BasicTypesInit
    /\ check_i = 0 /\ semantic_pc = "idle"

\* check_types is called on a fresh TypeChecker: lines 53-58
SemanticStarted ==
    /\ semantic_errors = <<>> /\ variables = EmptyDict /\ functions = EmptyDict
    /\ current_scope_level = 0 /\ basic_types = BasicTypesInit
    /\ check_i = 0 /\ semantic_pc = "running"

\* one iteration of the loop of check_types returns
check_types_step ==
    /\ semantic_pc = "running"
    /\ check_i < Len(tokens)
    /\ Returns(check_types_iteration(tokens, check_i, CheckerState))
    /\ UNCHANGED <<symbolVars, guiVars, semantic_pc, tokenizerVars, tokens, lexicalVars, syntaxVars, analyze_pc>>

\* an iteration raises IndexError, which check_types does not catch
check_types_raise ==
    /\ semantic_pc = "running"
    /\ check_i < Len(tokens)
    /\ Raises(check_types_iteration(tokens, check_i, CheckerState))
    /\ semantic_pc' = "raised"
    /\ UNCHANGED <<symbolVars, guiVars, tokenizerVars, tokens, lexicalVars, syntaxVars, analyze_pc>>

\* the loop ends: return self.errors (line 77)
check_types_return ==
    /\ semantic_pc = "running"
    /\ check_i >= Len(tokens)
    /\ semantic_pc' = "returned"
    /\ UNCHANGED <<symbolVars, guiVars, semantic_errors, variables, functions, current_scope_level,
                   basic_types, check_i, tokenizerVars, tokens, lexicalVars,
                   syntaxVars, analyze_pc>>

\* the texts of the runs that follow one another on one MainWindow
RerunCodes ==
    {"int main() { return 0; }", "int y[3]; y[0] = 1;", "int y; y[0] = 1;",
     "float z = 1;", "int f(int a) { } f(1, 2);", "x = 1; int x;",
     "int y; int f() { float y; } y = 5;", "int f(", "#",
     "int f(int a, int b) { if (a) { a = 1; } else { a = 2 * a; } }",
     "void g() { while (a) { f(a, 1); } if (a) return; }",
     "int h() { for (a = 0; a; a) { return; } }",
     "int k() { return (a) + f() - b / 2; }",
     "int m() { int v = 1; float w; v = w; }"}

(***************************************************************************)
(* MainWindow._analyze_code (main_window.py 429-461): one run.  The try    *)
(* block of lines 437-458 runs the four stages in order; any exception     *)
(* leaves it for the handler of lines 460-461, which shows a message box.  *)
(* The record analyze_pc is the statement the run has reached.             *)
(***************************************************************************)
\* lines 439-440, tokenize returns
analyze_tokenize ==
    /\ analyze_pc = "tokenize"
    /\ LET r == Tokenize(source)
       IN  /\ ~r.raised
           /\ tokens' = r.tokens
           /\ SetTokenizerState(r.t)
           /\ tokenizer_pc' = "returned"
    /\ analyze_pc' = "lexical"
    /\ UNCHANGED <<symbolVars, guiVars, source, lexicalVars, syntaxVars, semanticVars>>

\* lines 439-440, tokenize raises SyntaxError: lines 460-461
analyze_tokenize_raise ==
    /\ analyze_pc = "tokenize"
    /\ LET r == Tokenize(source)
       IN  /\ r.raised
           /\ SetTokenizerState(r.t)
           /\ tokenizer_pc' = "raised"
    /\ analyze_pc' = "failed"
    /\ UNCHANGED <<symbolVars, guiVars, source, tokens, lexicalVars, syntaxVars, semanticVars>>

\* lines 443-444
analyze_lexical ==
    /\ analyze_pc = "lexical"
    /\ lexical_errors' = detect_errors(tokens)
    /\ analyze_pc' = "syntax"
    /\ UNCHANGED <<symbolVars, guiVars, tokenizerVars, tokens, syntaxVars, semanticVars>>

\* line 447 calls analyze, which resets the analyzer (syntax_analyzer.py 25-27)
\* and calls _parse_program; SyntaxNext are its steps
analyze_syntax ==
    /\ analyze_pc = "syntax"
    /\ syntax_pc = "idle"
    /\ syntax_errors' = <<>>
    /\ current_token_index' = 0
    /\ call_stack' = <<Frame("_parse_program", 0)>>
    /\ syntax_pc' = "running"
    /\ attempt_start' = 0
    /\ UNCHANGED <<symbolVars, guiVars, tokenizerVars, tokens, lexicalVars, semanticVars, analyze_pc>>

\* analyze has returned (line 448); lines 451-458, check_types returns
analyze_semantic ==
    /\ analyze_pc = "syntax"
    /\ syntax_pc = "returned"
    /\ Returns(check_types(tokens, CheckerState))
    /\ semantic_pc' = "returned"
    /\ analyze_pc' = "done"
    /\ UNCHANGED <<symbolVars, guiVars, tokenizerVars, tokens, lexicalVars, syntaxVars>>

\* line 451, check_types raises IndexError: lines 460-461
analyze_semantic_raise ==
    /\ analyze_pc = "syntax"
    /\ syntax_pc = "returned"
    /\ Raises(check_types(tokens, CheckerState))
    /\ semantic_pc' = "raised"
    /\ analyze_pc' = "failed"
    /\ UNCHANGED <<symbolVars, guiVars, tokenizerVars, tokens, lexicalVars, syntaxVars>>

\* _analyze_code is called again on the same MainWindow: line 432 reads the
\* text, line 439 makes a new Tokenizer; the detector, the analyzer and the
\* checker are the ones of the run before, left as that run left them
analyze_again ==
    /\ analyze_pc \in {"done", "failed"}
    /\ source' \in RerunCodes
    /\ position' = 0 /\ line' = 1 /\ column' = 1 /\ current_char' = None
    /\ tokenizer_pc' = "idle"
    /\ tokens' = <<>>
    /\ syntax_pc' = "idle"
    /\ semantic_pc' = "idle"
    /\ analyze_pc' = "tokenize"
    /\ UNCHANGED <<symbolVars, guiVars, lexicalVars, syntax_errors, current_token_index,
                   call_stack, attempt_start, semantic_errors, variables, functions,
                   current_scope_level, basic_types, check_i>>

(***************************************************************************)
(* CodeAnalyzerGUI.perform_syntax_analysis (code_analyzer_gui.py 259-346), *)
(* the syntax analysis with recovery of the second window: it works on the *)
(* lines of the text.  One action is one iteration of the loop of line     *)
(* 269; the last action is the loops of lines 314-330.                     *)
(***************************************************************************)
\* sub in s, for strings
RECURSIVE Contains(_, _)
Contains(s, sub) ==
    IF Len(s) < Len(sub) THEN FALSE
    ELSE IF SubSeq(s, 1, Len(sub)) = sub THEN TRUE
    ELSE Contains(Tail(s), sub)

\* s.lstrip(), s.rstrip(), s.strip()
RECURSIVE lstrip(_)
lstrip(s) == IF Len(s) > 0 /\ isspace(Head(s)) THEN lstrip(Tail(s)) ELSE s

RECURSIVE rstrip(_)
rstrip(s) ==
    IF Len(s) > 0 /\ isspace(SubSeq(s, Len(s), Len(s)))
    THEN rstrip(SubSeq(s, 1, Len(s) - 1)) ELSE s

strip(s) == lstrip(rstrip(s))

\* s.startswith(c), c one character
startswith(s, c) == Len(s) > 0 /\ Head(s) = c

\* s.split('\n'), cur the line being read
RECURSIVE split_from(_, _)
split_from(s, cur) ==
    IF Len(s) = 0 THEN <<cur>>
    ELSE IF Head(s) = "\n" THEN <<cur>> \o split_from(Tail(s), "")
    ELSE split_from(Tail(s), cur \o Head(s))

split(s) == split_from(s, "")

\* the locals the loops change
GuiState ==
    [errors |-> gui_errors, recovery_actions |-> recovery_actions,
     brace_stack |-> brace_stack, paren_stack |-> paren_stack,
     in_panic_mode |-> in_panic_mode, panic_mode_start |-> panic_mode_start,
     main_brace_line |-> main_brace_line]

SetGuiState(gs) ==
    /\ gui_errors' = gs.errors
    /\ recovery_actions' = gs.recovery_actions
    /\ brace_stack' = gs.brace_stack
    /\ paren_stack' = gs.paren_stack
    /\ in_panic_mode' = gs.in_panic_mode
    /\ panic_mode_start' = gs.panic_mode_start
    /\ main_brace_line' = gs.main_brace_line

\* lines 262-267; main_brace_line = None is 0, which is no line's number
GuiIdle ==
    /\ gui_code = "" /\ gui_errors = <<>> /\ recovery_actions = <<>>
    /\ brace_stack = <<>> /\ paren_stack = <<>>
    /\ in_panic_mode = FALSE /\ panic_mode_start = 0 /\ main_brace_line = 0
    /\ line_number = 0 /\ gui_pc = "idle"

\* lines 285-302: one character of the line i
check_character(char, i, gs) ==
    IF char = "{" THEN [gs EXCEPT !.brace_stack = Append(@, i)]
    ELSE IF char = "}"
    THEN IF gs.brace_stack = <<>>
         THEN [gs EXCEPT
                  !.errors = Append(@, "Line " \o str(i)
                                       \o ": Error - Unexpected closing brace"),
                  !.in_panic_mode = TRUE,
                  !.panic_mode_start = i]
         ELSE [gs EXCEPT !.brace_stack = SubSeq(@, 1, Len(@) - 1)]
    ELSE IF char = "(" THEN [gs EXCEPT !.paren_stack = Append(@, i)]
    ELSE IF char = ")"
    THEN IF gs.paren_stack = <<>>
         THEN [gs EXCEPT
                  !.errors = Append(@, "Line " \o str(i)
                                       \o ": Error - Unexpected closing parenthesis"),
                  !.in_panic_mode = TRUE,
                  !.panic_mode_start = i]
         ELSE [gs EXCEPT !.paren_stack = SubSeq(@, 1, Len(@) - 1)]
    ELSE gs

\* the loop of lines 284-302 over the characters of the line i
RECURSIVE check_characters(_, _, _)
check_characters(text, i, gs) ==
    IF Len(text) = 0 THEN gs
    ELSE check_characters(Tail(text), i, check_character(Head(text), i, gs))

\* lines 304-311
check_missing_semicolon(text, i, gs) ==
    IF /\ strip(text) /= ""
       /\ ~endswith(strip(text), ";")
       /\ ~endswith(strip(text), "{")
       /\ ~endswith(strip(text), "}")
       /\ ~startswith(strip(text), "#")
    THEN [gs EXCEPT
             !.errors = Append(@, "Line " \o str(i) \o ": Error - Missing semicolon"),
             !.recovery_actions = @ \o
                 <<"Phrase-Level Recovery: Suggested adding semicolon at line " \o str(i),
                   "  Original: " \o strip(text),
                   "  Fixed:    " \o strip(rstrip(text) \o ";")>>]
    ELSE gs

\* lines 275-281, the line i is taken in panic mode
check_panic_mode(text, i, gs) ==
    IF Contains(text, ";") \/ Contains(text, "{") \/ Contains(text, "}")
    THEN [gs EXCEPT
             !.recovery_actions = Append(@, "Panic Mode Recovery: Skipped from line "
                                            \o str(gs.panic_mode_start) \o " to line "
                                            \o str(i)),
             !.in_panic_mode = FALSE]
    ELSE gs

\* lines 270-272
check_main_brace(text, i, gs) ==
    IF Contains(text, "main()") /\ Contains(text, "{")
    THEN [gs EXCEPT !.main_brace_line = i] ELSE gs

\* lines 275-311 after lines 270-272 left gs
check_line_after_main_brace(text, i, gs) ==
    IF gs.in_panic_mode THEN check_panic_mode(text, i, gs)
    ELSE check_missing_semicolon(text, i, check_characters(text, i, gs))

\* one iteration of the loop of line 269, on the line i
check_line(text, i, gs) == check_line_after_main_brace(text, i, check_main_brace(text, i, gs))

\* lines 314-324 for the opening lines left on brace_stack, from the k-th
RECURSIVE check_unclosed_braces(_, _, _)
check_unclosed_braces(k, number_of_lines, gs) ==
    IF k > Len(gs.brace_stack) THEN gs
    ELSE check_unclosed_braces(k + 1, number_of_lines,
             [gs EXCEPT
                 !.errors = Append(@, "Line " \o str(gs.brace_stack[k])
                                      \o ": Error - Unclosed brace"),
                 !.recovery_actions = Append(@,
                     "Phrase-Level Recovery: Add closing brace after line "
                     \o str(IF gs.brace_stack[k] = gs.main_brace_line
                            THEN number_of_lines ELSE gs.brace_stack[k]))])

\* lines 326-330 for the opening lines left on paren_stack, from the k-th
RECURSIVE check_unclosed_parentheses(_, _)
check_unclosed_parentheses(k, gs) ==
    IF k > Len(gs.paren_stack) THEN gs
    ELSE check_unclosed_parentheses(k + 1,
             [gs EXCEPT
                 !.errors = Append(@, "Line " \o str(gs.paren_stack[k])
                                      \o ": Error - Unclosed parenthesis"),
                 !.recovery_actions = Append(@,
                     "Phrase-Level Recovery: Add closing parenthesis after line "
                     \o str(gs.paren_stack[k]))])

\* perform_syntax_analysis is called: lines 261-267
GuiStarted ==
    /\ gui_errors = <<>> /\ recovery_actions = <<>>
    /\ brace_stack = <<>> /\ paren_stack = <<>>
    /\ in_panic_mode = FALSE /\ panic_mode_start = 0 /\ main_brace_line = 0
    /\ line_number = 0 /\ gui_pc = "lines"

\* one iteration of the loop of line 269
perform_syntax_analysis_line ==
    /\ gui_pc = "lines"
    /\ line_number < Len(split(gui_code))
    /\ line_number' = line_number + 1
    /\ SetGuiState(check_line(split(gui_code)[line_number + 1], line_number + 1, GuiState))
    /\ UNCHANGED <<symbolVars, gui_code, gui_pc, tokenizerVars, tokens, lexicalVars, syntaxVars,
                   semanticVars, analyze_pc>>

\* the loop of line 269 is over: lines 314-330, and the lists are displayed
perform_syntax_analysis_unclosed ==
    /\ gui_pc = "lines"
    /\ line_number = Len(split(gui_code))
    /\ SetGuiState(check_unclosed_parentheses(1,
                       check_unclosed_braces(1, Len(split(gui_code)), GuiState)))
    /\ gui_pc' = "displayed"
    /\ UNCHANGED <<symbolVars, gui_code, line_number, tokenizerVars, tokens, lexicalVars, syntaxVars,
                   semanticVars, analyze_pc>>

(***************************************************************************)
(* SymbolTable (src/semantic/symbol_table.py).  A Symbol is an object: the  *)
(* table holds it in a frame of scopes and in symbols at once, so each      *)
(* Symbol carries the number oid of its object and an attribute set on an   *)
(* object shows wherever the object is held.                                *)
(***************************************************************************)
\* most Symbol objects made between two calls of clear
MaxSymbols == 2

\* most frames above the global frame
MaxScopeDepth == 2

SymbolNames == {"x", "y"}

\* the None that lookup returns: the reference to no object
NoSymbol == [oid |-> 0]

Symbol(oid, name, type, kind, level) ==
    [oid |-> oid, name |-> name, type |-> type, kind |-> kind, scope_level |-> level,
     is_initialized |-> FALSE, is_defined |-> FALSE]

\* lines 19-22
SymbolTableIdle ==
    /\ symbols = EmptyDict /\ scope_level = 0 /\ scopes = <<EmptyDict>>
    /\ symbol_count = 0 /\ last_call = [op |-> "__init__"]

\* lines 24-27
enter_scope ==
    /\ scope_level < MaxScopeDepth
    /\ scope_level' = scope_level + 1
    /\ scopes' = Append(scopes, EmptyDict)
    /\ last_call' = [op |-> "enter_scope"]
    /\ UNCHANGED <<symbols, symbol_count>>
    /\ UNCHANGED analysisVars

\* exit_scope without the test of line 31
exit_scope_unguarded ==
    /\ scope_level' = scope_level - 1
    /\ scopes' = SubSeq(scopes, 1, Len(scopes) - 1)
    /\ last_call' = [op |-> "exit_scope", depth |-> scope_level]
    /\ UNCHANGED <<symbols, symbol_count>>
    /\ UNCHANGED analysisVars

\* lines 29-33
exit_scope ==
    /\ IF scope_level > 0
       THEN /\ scope_level' = scope_level - 1
            /\ scopes' = SubSeq(scopes, 1, Len(scopes) - 1)
       ELSE UNCHANGED <<scope_level, scopes>>
    /\ last_call' = [op |-> "exit_scope", depth |-> scope_level]
    /\ UNCHANGED <<symbols, symbol_count>>
    /\ UNCHANGED analysisVars

\* add_symbol testing the flat dict symbols instead of the innermost frame
add_symbol_unless_known(symbol) ==
    IF symbol.name \in DOMAIN symbols
    THEN /\ last_call' = [op |-> "add_symbol", symbol |-> symbol, result |-> FALSE]
         /\ UNCHANGED <<symbols, scopes>>
    ELSE /\ scopes' = [scopes EXCEPT ![Len(scopes)] = Put(@, symbol.name, symbol)]
         /\ symbols' = Put(symbols, symbol.name, symbol)
         /\ last_call' = [op |-> "add_symbol", symbol |-> symbol, result |-> TRUE]

\* lines 35-42, for the Symbol object symbol
add_symbol_to(symbol) ==
    IF symbol.name \in DOMAIN scopes[Len(scopes)]
    THEN /\ last_call' = [op |-> "add_symbol", symbol |-> symbol, result |-> FALSE]
         /\ UNCHANGED <<symbols, scopes>>
    ELSE /\ scopes' = [scopes EXCEPT ![Len(scopes)] = Put(@, symbol.name, symbol)]
         /\ symbols' = Put(symbols, symbol.name, symbol)
         /\ last_call' = [op |-> "add_symbol", symbol |-> symbol, result |-> TRUE]

\* a caller makes a Symbol and hands it to add_symbol
add_symbol ==
    /\ symbol_count < MaxSymbols
    /\ \E name \in SymbolNames, level \in {scope_level} :
           add_symbol_to(Symbol(symbol_count + 1, name, Type("int"), "variable", level))
    /\ symbol_count' = symbol_count + 1
    /\ UNCHANGED scope_level
    /\ UNCHANGED analysisVars

\* lines 80-89, for a Variable object that its caller made at the depth of the table
add_variable ==
    /\ symbol_count < MaxSymbols
    /\ \E name \in SymbolNames, level \in {scope_level} :
           LET variable == Variable(name, Type("int"), FALSE, level)
           IN  add_symbol_to(
                   [Symbol(symbol_count + 1, variable.name, variable.type, "variable",
                           variable.scope_level)
                       EXCEPT !.is_initialized = variable.is_initialized])
    /\ symbol_count' = symbol_count + 1
    /\ UNCHANGED scope_level
    /\ UNCHANGED analysisVars

\* lines 91-100: the scope_level of the Symbol is the 0 of line 97
add_function ==
    /\ symbol_count < MaxSymbols
    /\ \E name \in SymbolNames :
           LET function == Function(name, Type("int"), <<>>, TRUE)
           IN  add_symbol_to(
                   [Symbol(symbol_count + 1, function.name, function.return_type,
                           "function", 0)
                       EXCEPT !.is_defined = function.is_defined])
    /\ symbol_count' = symbol_count + 1
    /\ UNCHANGED scope_level
    /\ UNCHANGED analysisVars

\* lines 102-111, for a Variable object that its caller made at the depth of the table
add_parameter ==
    /\ symbol_count < MaxSymbols
    /\ \E name \in SymbolNames, level \in {scope_level} :
           LET variable == Variable(name, Type("int"), FALSE, level)
           IN  add_symbol_to(
                   [Symbol(symbol_count + 1, variable.name, variable.type, "parameter",
                           variable.scope_level)
                       EXCEPT !.is_initialized = TRUE])
    /\ symbol_count' = symbol_count + 1
    /\ UNCHANGED scope_level
    /\ UNCHANGED analysisVars

\* lookup reading the flat dict symbols instead of the frames
lookup_flat(name, k) ==
    IF name \in DOMAIN symbols THEN symbols[name] ELSE NoSymbol

\* lines 47-55: the frames from the innermost to the outermost, k the frame tried
RECURSIVE lookup_from(_, _)
lookup_from(name, k) ==
    IF k = 0 THEN NoSymbol
    ELSE IF name \in DOMAIN scopes[k] THEN scopes[k][name]
    ELSE lookup_from(name, k - 1)

\* lines 44-55
lookup_in(name) == lookup_from(name, Len(scopes))

lookup ==
    /\ \E name \in SymbolNames :
           last_call' = [op |-> "lookup", name |-> name, result |-> lookup_in(name)]
    /\ UNCHANGED <<symbols, scope_level, scopes, symbol_count>>
    /\ UNCHANGED analysisVars

\* lines 66-68: the values of the flat dict symbols; the list is modelled as the
\* set of its elements, which are one per name
get_all_symbols_of(table) == {table[name] : name \in DOMAIN table}

get_all_symbols ==
    /\ last_call' = [op |-> "get_all_symbols", result |-> get_all_symbols_of(symbols)]
    /\ UNCHANGED <<symbols, scope_level, scopes, symbol_count>>
    /\ UNCHANGED analysisVars

\* setattr(symbol, key, value) on the object oid, in a dict that may hold it
SetAttr(d, oid, key, value) ==
    [n \in DOMAIN d |-> IF d[n].oid = oid THEN [d[n] EXCEPT ![key] = value] ELSE d[n]]

\* lines 57-64, with one keyword argument
update_symbol_with(name, key, value) ==
    IF lookup_in(name).oid /= NoSymbol.oid
    THEN /\ scopes' = [k \in 1..Len(scopes) |->
                          SetAttr(scopes[k], lookup_in(name).oid, key, value)]
         /\ symbols' = SetAttr(symbols, lookup_in(name).oid, key, value)
         /\ last_call' = [op |-> "update_symbol", name |-> name, result |-> TRUE]
    ELSE /\ last_call' = [op |-> "update_symbol", name |-> name, result |-> FALSE]
         /\ UNCHANGED <<symbols, scopes>>

update_symbol ==
    /\ \E name \in SymbolNames, key \in {"is_initialized", "is_defined"} :
           update_symbol_with(name, key, TRUE)
    /\ UNCHANGED <<scope_level, symbol_count>>
    /\ UNCHANGED analysisVars

\* lines 74-78; no Symbol object is held any more
clear ==
    /\ symbols' = EmptyDict
    /\ scopes' = <<EmptyDict>>
    /\ scope_level' = 0
    /\ symbol_count' = 0
    /\ last_call' = [op |-> "clear"]
    /\ UNCHANGED analysisVars

SymbolTableNext ==
    enter_scope \/ exit_scope \/ add_symbol \/ lookup \/ update_symbol \/ clear
    \/ get_all_symbols

(***************************************************************************)
(* ErrorRecovery (error_recovery.py 17-139).  An index i of the code is    *)
(* the position i + 1 of the token list.                                   *)
(***************************************************************************)
\* the None that recover_from_error returns: no index
NoIndex == 0 - 1

UpperCase == <<"A", "B", "C", "D", "E", "F", "G", "H", "I", "J", "K", "L", "M",
               "N", "O", "P", "Q", "R", "S", "T", "U", "V", "W", "X", "Y", "Z">>
LowerCase == <<"a", "b", "c", "d", "e", "f", "g", "h", "i", "j", "k", "l", "m",
               "n", "o", "p", "q", "r", "s", "t", "u", "v", "w", "x", "y", "z">>

\* the lower-case letter of each upper-case letter
lower_case ==
    [c \in {UpperCase[k] : k \in 1..Len(UpperCase)} |->
        LowerCase[CHOOSE k \in 1..Len(UpperCase) : UpperCase[k] = c]]

\* str.lower()
RECURSIVE lower(_)
lower(s) ==
    IF s = "" THEN ""
    ELSE (IF SubSeq(s, 1, 1) \in DOMAIN lower_case THEN lower_case[SubSeq(s, 1, 1)]
          ELSE SubSeq(s, 1, 1))
         \o lower(Tail(s))

\* the loop of lines 70-76, from the index i on
RECURSIVE _recover_missing_semicolon_from(_, _)
_recover_missing_semicolon_from(toks, i) ==
    IF i >= Len(toks) THEN NoIndex
    ELSE IF toks[i + 1].type \in {"IF", "WHILE", "FOR", "RETURN"} THEN i
    ELSE IF toks[i + 1].type = "SEMICOLON" THEN i + 1
    ELSE _recover_missing_semicolon_from(toks, i + 1)

\* _recover_missing_semicolon looking at the current token too
_recover_missing_semicolon_here(toks, current_index) ==
    _recover_missing_semicolon_from(toks, current_index)

\* lines 67-76
_recover_missing_semicolon(toks, current_index) ==
    _recover_missing_semicolon_from(toks, current_index + 1)

\* the loop of lines 82-90
RECURSIVE _recover_missing_brace_from(_, _, _)
_recover_missing_brace_from(toks, i, brace_count) ==
    IF i >= Len(toks) THEN NoIndex
    ELSE IF toks[i + 1].type = "LBRACE"
    THEN _recover_missing_brace_from(toks, i + 1, brace_count + 1)
    ELSE IF toks[i + 1].type = "RBRACE"
    THEN IF brace_count - 1 = 0 THEN i + 1
         ELSE _recover_missing_brace_from(toks, i + 1, brace_count - 1)
    ELSE _recover_missing_brace_from(toks, i + 1, brace_count)

\* lines 78-90
_recover_missing_brace(toks, current_index) ==
    _recover_missing_brace_from(toks, current_index + 1, 1)

\* the loop of lines 96-104
RECURSIVE _recover_missing_parenthesis_from(_, _, _)
_recover_missing_parenthesis_from(toks, i, paren_count) ==
    IF i >= Len(toks) THEN NoIndex
    ELSE IF toks[i + 1].type = "LPAREN"
    THEN _recover_missing_parenthesis_from(toks, i + 1, paren_count + 1)
    ELSE IF toks[i + 1].type = "RPAREN"
    THEN IF paren_count - 1 = 0 THEN i + 1
         ELSE _recover_missing_parenthesis_from(toks, i + 1, paren_count - 1)
    ELSE _recover_missing_parenthesis_from(toks, i + 1, paren_count)

\* lines 92-104
_recover_missing_parenthesis(toks, current_index) ==
    _recover_missing_parenthesis_from(toks, current_index + 1, 1)

\* the loop of lines 109-112
RECURSIVE _recover_invalid_identifier_from(_, _)
_recover_invalid_identifier_from(toks, i) ==
    IF i >= Len(toks) THEN NoIndex
    ELSE IF toks[i + 1].type \in {"SEMICOLON", "COMMA", "RPAREN"} THEN i
    ELSE _recover_invalid_identifier_from(toks, i + 1)

\* lines 106-112
_recover_invalid_identifier(toks, current_index) ==
    _recover_invalid_identifier_from(toks, current_index + 1)

\* the loop of lines 117-122
RECURSIVE _recover_type_mismatch_from(_, _)
_recover_type_mismatch_from(toks, i) ==
    IF i >= Len(toks) THEN NoIndex
    ELSE IF toks[i + 1].type = "SEMICOLON" THEN i + 1
    ELSE IF toks[i + 1].type \in {"IF", "WHILE", "FOR", "RETURN"} THEN i
    ELSE _recover_type_mismatch_from(toks, i + 1)

\* lines 114-122
_recover_type_mismatch(toks, current_index) ==
    _recover_type_mismatch_from(toks, current_index + 1)

\* lines 52-65: the index that recover_from_error returns for an error with the
\* message
recover_from_error_of(message, toks, current_index) ==
    With(lower(message),
         LAMBDA lowered :
             IF Contains(lowered, "semicolon")
             THEN _recover_missing_semicolon(toks, current_index)
             ELSE IF Contains(lowered, "brace")
             THEN _recover_missing_brace(toks, current_index)
             ELSE IF Contains(lowered, "parenthesis")
             THEN _recover_missing_parenthesis(toks, current_index)
             ELSE IF Contains(lowered, "identifier")
             THEN _recover_invalid_identifier(toks, current_index)
             ELSE IF Contains(lowered, "type")
             THEN _recover_type_mismatch(toks, current_index)
             ELSE NoIndex)

\* messages of errors: one for each branch of recover_from_error, in both
\* cases of letters, and one that no branch is for
ErrorMessages ==
    {"No semicolon", "Open BRACE", "No parenthesis", "Bad identifier",
     "Type mismatch", "Invalid statement"}

\* a caller hands recover_from_error the first error of a run and the index of
\* a token
recover_from_error ==
    /\ last_call.op = "__init__"
    /\ \E message \in ErrorMessages, current_index \in 0..(Len(tokens) - 1) :
           last_call' = [op |-> "recover_from_error", message |-> message,
                         current_index |-> current_index, resumed |-> FALSE,
                         result |-> recover_from_error_of(message, tokens, current_index)]
    /\ UNCHANGED <<symbols, scope_level, scopes, symbol_count>>
    /\ UNCHANGED analysisVars

\* the caller resumes at the index that the last call returned, and hands
\* recover_from_error the next error there
recover_from_error_again ==
    /\ last_call.op = "recover_from_error"
    /\ last_call.result /= NoIndex
    /\ \E message \in ErrorMessages :
           last_call' = [op |-> "recover_from_error", message |-> message,
                         current_index |-> last_call.result, resumed |-> TRUE,
                         result |-> recover_from_error_of(message, tokens,
                                                          last_call.result)]
    /\ UNCHANGED <<symbols, scope_level, scopes, symbol_count>>
    /\ UNCHANGED analysisVars

(***************************************************************************)
(* Inputs                                                                  *)
(***************************************************************************)
\* the strings over alphabet of length at most n
RECURSIVE Strings(_, _)
Strings(alphabet, n) ==
    IF n = 0 THEN {""}
    ELSE LET shorter == Strings(alphabet, n - 1)
         IN  shorter \cup {s \o c : s \in shorter, c \in alphabet}

\* the programs of the end-to-end scenarios
Scenario1 == "int main() { return 0; }"
Scenario2 == "int x = 5"
Scenario3 == "int add(int a, int b) { return a + b; } int main() { add(1); }"
Scenario4 == "int y; y = 5.0;"
Scenario5 == "}"
Scenario6 == "x = 1; int x;"

\* programs that between them use every production of the grammar
Productions ==
    {"int f(int a, int b) { if (a) { a = 1; } else { a = 2 * a; } }",
     "void g() { while (a) { f(a, 1); } if (a) return; }",
     "int h() { for (a = 0; a; a) { return; } }",
     "int k() { return (a) + f() - b / 2; }",
     "int m() { int v = 1; float w; v = w; }"}

\* a function body that is never closed, and a parameter list that is never closed
UnclosedBody == "int f() { return 0;"
UnclosedParameters == "int f("

Scenarios == {Scenario1, Scenario2, Scenario3, Scenario4, Scenario5, Scenario6}

\* statements of a function body written without their ';', and the well-formed
\* statements that follow them
Unterminated == {"a = 1", "int v = 1", "int v", "g(1)", "return 0", "return"}
Following == {"b = 2;", "return 0;", "int w;", "if (a) { }"}

\* the function whose body is the statement first, its ';' missing, and then rest
BodyOf(first, rest) == "int f() { " \o first \o " " \o rest \o " }"

MissingSemicolon == {BodyOf(first, rest) : first \in Unterminated, rest \in Following}

(***************************************************************************)
(* The run of the analysis: _analyze_code on the text of the editor.       *)
(***************************************************************************)
\* longest enumerated text of the editor
MaxCodeLen == 3

CodeAlphabet == {"x", "1", "=", ";", "}", "#", " ", "\n"}

Codes ==
    Scenarios \cup Productions \cup {UnclosedBody, UnclosedParameters}
    \cup Strings(CodeAlphabet, MaxCodeLen)

\* the analyzers as MainWindow.__init__ builds them (main_window.py 52-57) and
\* the text read at line 432
Init ==
    /\ source \in Codes
    /\ position = 0 /\ line = 1 /\ column = 1 /\ current_char = None
    /\ tokenizer_pc = "idle"
    /\ tokens = <<>>
    /\ LexicalIdle
    /\ SyntaxIdle
    /\ SemanticIdle
    /\ analyze_pc = "tokenize"
    /\ GuiIdle
    /\ SymbolTableIdle

Next ==
    \/ analyze_tokenize
    \/ analyze_tokenize_raise
    \/ analyze_lexical
    \/ analyze_syntax
    \/ SyntaxNext
    \/ analyze_semantic
    \/ analyze_semantic_raise

Spec == Init /\ [][Next]_vars

\* the run is scheduled until it ends: nothing else runs on its thread
FairSpec == Spec /\ WF_vars(Next)

(***************************************************************************)
(* Runs of _analyze_code one after the other on one MainWindow.            *)
(***************************************************************************)
RerunInitial ==
    /\ source \in RerunCodes
    /\ position = 0 /\ line = 1 /\ column = 1 /\ current_char = None
    /\ tokenizer_pc = "idle"
    /\ tokens = <<>>
    /\ LexicalIdle
    /\ SyntaxIdle
    /\ SemanticIdle
    /\ analyze_pc = "tokenize"
    /\ GuiIdle
    /\ SymbolTableIdle

RerunNext == Next \/ analyze_again

RerunSpec == RerunInitial /\ [][RerunNext]_vars

(***************************************************************************)
(* Tokenizer.tokenize on every short text.                                 *)
(***************************************************************************)
TokenizerAlphabet == {"a", "1", ".", " ", "\n", "/", "*", "=", "#"}

\* texts with comments between tokens
Commented ==
    {"a/*1*/a", "a /* a\n* 1 */ 1", "a//1\na", "a // a /* 1\n1 */", "1/a/*a*/",
     "a / 1 //", "a/* 1", "/*/ a", "a /**/ / 1", "/* # */ a // .", "a/*/1*/a"}

TokenizerInitial ==
    /\ source \in Strings(TokenizerAlphabet, MaxSourceLen) \cup Commented
    /\ LET t == TokenizerInit(source)
       IN  /\ position = t.position /\ line = t.line /\ column = t.column
           /\ current_char = t.current_char
    /\ tokenizer_pc = "running"
    /\ tokens = <<>>
    /\ LexicalIdle
    /\ SyntaxIdle
    /\ SemanticIdle
    /\ analyze_pc = "idle"
    /\ GuiIdle
    /\ SymbolTableIdle

TokenizerNext == tokenize \/ tokenize_raise

TokenizerSpec == TokenizerInitial /\ [][TokenizerNext]_vars

(***************************************************************************)
(* SyntaxAnalyzer.analyze on every short token list that ends in EOF, and  *)
(* on the token lists of the programs above.                               *)
(***************************************************************************)
\* most tokens before EOF in an enumerated token list
MaxTokens == 4

SyntaxKinds == {"INT", "IDENTIFIER", "LPAREN", "RPAREN", "LBRACE", "RBRACE",
                "SEMICOLON", "INTEGER"}

\* the text the tokenizer gives a token of the type
ValueOf(type) ==
    CASE type = "INT" -> "int" [] type = "IDENTIFIER" -> "x" [] type = "LPAREN" -> "("
      [] type = "RPAREN" -> ")" [] type = "LBRACE" -> "{" [] type = "RBRACE" -> "}"
      [] type = "SEMICOLON" -> ";" [] type = "INTEGER" -> "1" [] type = "EOF" -> ""
      [] type = "IF" -> "if" [] type = "COMMA" -> ","

\* the tokens of the types, one after the other on line 1, and EOF
TokensOf(types) ==
    [k \in 1..(Len(types) + 1) |->
        IF k <= Len(types) THEN Token(types[k], ValueOf(types[k]), 1, k)
        ELSE Token("EOF", "", 1, k)]

SyntaxInputs ==
    {TokensOf(types) : types \in UNION {[1..n -> SyntaxKinds] : n \in 0..MaxTokens}}
    \cup {Tokenize(code).tokens :
            code \in Scenarios \cup Productions \cup MissingSemicolon
                     \cup {UnclosedBody, UnclosedParameters}}

SyntaxInitial ==
    /\ TokenizerIdle
    /\ tokens \in SyntaxInputs
    /\ LexicalIdle
    /\ SyntaxStarted
    /\ SemanticIdle
    /\ analyze_pc = "idle"
    /\ GuiIdle
    /\ SymbolTableIdle

SyntaxSpec == SyntaxInitial /\ [][SyntaxNext]_vars

\* analyze runs until it returns: nothing else runs on its thread
SyntaxFairSpec == SyntaxSpec /\ WF_vars(SyntaxNext)

(***************************************************************************)
(* SyntaxAnalyzer._expect called again and again on an analyzer that       *)
(* holds a short token list.                                               *)
(***************************************************************************)
ExpectInitial ==
    /\ TokenizerIdle
    /\ tokens \in {TokensOf(types) :
                     types \in UNION {[1..n -> SyntaxKinds] : n \in 0..MaxExpectTokens}}
    /\ LexicalIdle
    /\ syntax_errors = <<>> /\ current_token_index = 0
    /\ call_stack = <<>> /\ syntax_pc = "expect" /\ attempt_start = 0
    /\ SemanticIdle
    /\ analyze_pc = "idle"
    /\ GuiIdle
    /\ SymbolTableIdle

ExpectNext == expect_call

ExpectSpec == ExpectInitial /\ [][ExpectNext]_vars

(***************************************************************************)
(* ErrorRecovery.recover_from_error called again and again on short token  *)
(* lists, at any token and at the index that the call before returned.     *)
(***************************************************************************)
\* most tokens before EOF in a token list that recovery runs on
MaxRecoveryTokens == 3

RecoveryKinds == {"SEMICOLON", "IF", "LBRACE", "RBRACE", "LPAREN", "RPAREN",
                  "COMMA", "IDENTIFIER"}

RecoveryInitial ==
    /\ TokenizerIdle
    /\ tokens \in {TokensOf(types) :
                     types \in UNION {[1..n -> RecoveryKinds] : n \in 0..MaxRecoveryTokens}}
    /\ LexicalIdle
    /\ SyntaxIdle
    /\ SemanticIdle
    /\ analyze_pc = "idle"
    /\ GuiIdle
    /\ SymbolTableIdle

RecoveryNext == recover_from_error \/ recover_from_error_again

RecoverySpec == RecoveryInitial /\ [][RecoveryNext]_vars

(***************************************************************************)
(* CodeAnalyzerGUI.perform_syntax_analysis on every short text, as the     *)
(* editor gives it: with the newline that the Text widget ends with.       *)
(***************************************************************************)
\* longest enumerated text of the second window's editor
MaxGuiCodeLen == 4

GuiAlphabet == {"}", "{", "(", ")", ";", "x", "#", " ", "\n"}

GuiCodes ==
    {text \o "\n" :
        text \in Strings(GuiAlphabet, MaxGuiCodeLen)
                 \cup {"int main() {\nreturn 0;\n}", "int main() {\nreturn 0;"}}

GuiInitial ==
    /\ TokenizerIdle
    /\ tokens = <<>>
    /\ LexicalIdle
    /\ SyntaxIdle
    /\ SemanticIdle
    /\ analyze_pc = "idle"
    /\ gui_code \in GuiCodes
    /\ GuiStarted
    /\ SymbolTableIdle

GuiNext == perform_syntax_analysis_line \/ perform_syntax_analysis_unclosed

GuiSpec == GuiInitial /\ [][GuiNext]_vars

(***************************************************************************)
(* A SymbolTable under every sequence of calls.                            *)
(***************************************************************************)
SymbolTableInitial ==
    /\ TokenizerIdle
    /\ tokens = <<>>
    /\ LexicalIdle
    /\ SyntaxIdle
    /\ SemanticIdle
    /\ analyze_pc = "idle"
    /\ GuiIdle
    /\ SymbolTableIdle

SymbolTableSpec == SymbolTableInitial /\ [][SymbolTableNext]_vars

\* a SymbolTable filled through each of its four inserting methods
InsertNext ==
    \/ enter_scope
    \/ exit_scope
    \/ add_symbol
    \/ add_variable
    \/ add_function
    \/ add_parameter

InsertSpec == SymbolTableInitial /\ [][InsertNext]_vars

(***************************************************************************)
(* TypeChecker.check_types on the tokens of small programs: a declaration  *)
(* part followed by a part that uses what was declared.                    *)
(***************************************************************************)
Declarations ==
    {"", "int y;", "float y;", "char y;", "int y[3];",
     "int f() { }", "int f(int a) { }", "int f(int a, int b) { }",
     "int f(float y) { y = 5; }", "int y; int f() { float y; }",
     "int f(int a) { } int f() { }"}

Uses ==
    {"y = 5;", "y = 5.0;", "y = 1 + 2.5;", "int main() { y = 5.0; }",
     "float z = 1;", "int z = 2;", "int z = y;", "y[0] = 1;",
     "f();", "f(1);", "f(1, 2);", "f(1, 2, 3);", "int main() { f(1); }",
     "f(g(1));", "f(y);", "f(x);", "f(1, x);", "x = 1; int x;", "f(1"}

\* programs that declare a name more than once, in one scope or in several
Redeclarations ==
    {"int y; int y;", "int f() { int v; int v; }",
     "int f() { int v; } int g() { int v; }",
     "int y; int f() { int y; }", "int y; int f() { int y; } int y;",
     "int f() { int v; if (v) { v = 1; } int w; }",
     "int f() { int a; while (a) { a = 1; } int b; return 0; }",
     "int a[5]; int b; a[0] = 1; b[0] = 1;"}

\* declarations of the function f with several parameter lists, and calls of f
Signatures == {"int f() { }", "int f(int a) { }", "int f(float a, int b) { }"}
Calls == {"f();", "f(1);", "f(2.5);", "f(1, 2);"}

\* f declared twice and then called
Redeclared(first, second, call) == first \o " " \o second \o " " \o call

FunctionRedeclarations ==
    {Redeclared(first, second, call) :
        first \in Signatures, second \in Signatures, call \in Calls}

SemanticPrograms ==
    {d \o " " \o u : d \in Declarations, u \in Uses}
    \cup Redeclarations \cup FunctionRedeclarations \cup Scenarios \cup Productions \cup {UnclosedBody, UnclosedParameters}

SemanticInitial ==
    /\ TokenizerIdle
    /\ tokens \in {Tokenize(program).tokens : program \in SemanticPrograms}
    /\ LexicalIdle
    /\ SyntaxIdle
    /\ SemanticStarted
    /\ analyze_pc = "idle"
    /\ GuiIdle
    /\ SymbolTableIdle

SemanticNext == check_types_step \/ check_types_raise \/ check_types_return

SemanticSpec == SemanticInitial /\ [][SemanticNext]_vars

(***************************************************************************)
(* What the properties below say of a token list, read as C: the calls,    *)
(* their arguments, the declarations and the uses in it.  Positions are    *)
(* the positions 1..Len(toks) of the list.                                 *)
(***************************************************************************)
TypeKeywords == {"INT", "CHAR", "FLOAT", "VOID"}

LiteralTypes == {"INTEGER", "FLOAT_LITERAL", "CHAR_LITERAL"}

\* the type of the token at the position k, "NONE" outside the list
TypeAt(toks, k) == IF k >= 1 /\ k <= Len(toks) THEN toks[k].type ELSE "NONE"

Max(S) == CHOOSE x \in S : \A y \in S : y <= x

StartsWith(s, prefix) == Len(s) >= Len(prefix) /\ SubSeq(s, 1, Len(prefix)) = prefix

\* the diagnostics of errs that are located at the token
ErrorsAt(errs, token) ==
    {n \in 1..Len(errs) : errs[n].line = token.line /\ errs[n].column = token.column}

\* the number of tokens of the type among the first k - 1 tokens
Before(toks, k, type) == Cardinality({m \in 1..(k - 1) : TypeAt(toks, m) = type})

\* how many '{' are open at the position k
BraceDepth(toks, k) == Before(toks, k, "LBRACE") - Before(toks, k, "RBRACE")

\* how many '(' are open at the position k
ParenDepth(toks, k) == Before(toks, k, "LPAREN") - Before(toks, k, "RPAREN")

\* the position of the ')' that closes the '(' at the position open, 0 if none does
Closing(toks, open) ==
    LET closes == {m \in (open + 1)..Len(toks) :
                      /\ toks[m].type = "RPAREN"
                      /\ ParenDepth(toks, m) = ParenDepth(toks, open) + 1}
    IN  IF closes = {} THEN 0 ELSE CHOOSE m \in closes : \A other \in closes : m <= other

\* the number of comma-separated items between the '(' at open and its ')'
Items(toks, open) ==
    IF Closing(toks, open) = open + 1 THEN 0
    ELSE 1 + Cardinality({m \in (open + 1)..(Closing(toks, open) - 1) :
                             /\ toks[m].type = "COMMA"
                             /\ ParenDepth(toks, m) = ParenDepth(toks, open) + 1})

\* a call: a name followed by '(' that is not the name of a declaration
IsCall(toks, k) ==
    /\ TypeAt(toks, k) = "IDENTIFIER"
    /\ TypeAt(toks, k + 1) = "LPAREN"
    /\ TypeAt(toks, k - 1) \notin TypeKeywords

\* the positions before k of the declarations of the function called at k
FunctionDeclarationsBefore(toks, k) ==
    {j \in 1..(k - 1) :
        /\ TypeAt(toks, j) \in TypeKeywords
        /\ TypeAt(toks, j + 1) = "IDENTIFIER"
        /\ toks[j + 1].value = toks[k].value
        /\ TypeAt(toks, j + 2) = "LPAREN"
        /\ Closing(toks, j + 2) /= 0
        /\ Closing(toks, j + 2) < k}

\* the calls of toks to a function declared before the call, with a closing ')'
CallsOfDeclared(toks) ==
    {k \in 1..Len(toks) :
        /\ IsCall(toks, k)
        /\ FunctionDeclarationsBefore(toks, k) /= {}
        /\ Closing(toks, k + 1) /= 0}

\* the number of parameters of the last declaration before the call at k
ParametersOf(toks, k) == Items(toks, Max(FunctionDeclarationsBefore(toks, k)) + 2)

\* a use of a variable: a name that is neither called nor being declared
IsUse(toks, k) ==
    /\ TypeAt(toks, k) = "IDENTIFIER"
    /\ TypeAt(toks, k + 1) /= "LPAREN"
    /\ TypeAt(toks, k - 1) \notin TypeKeywords

\* a variable or a parameter of the name used at k is declared before k
DeclaredEarlier(toks, k) ==
    \E j \in 1..(k - 1) :
        /\ TypeAt(toks, j) \in TypeKeywords
        /\ TypeAt(toks, j + 1) = "IDENTIFIER"
        /\ toks[j + 1].value = toks[k].value
        /\ TypeAt(toks, j + 2) /= "LPAREN"

\* the positions of the declarations of the variable named at k that are in
\* scope at k: declared before k in a block that is still open at k
VisibleDeclarations(toks, k) ==
    {j \in 1..(k - 1) :
        /\ TypeAt(toks, j) \in {"INT", "CHAR", "FLOAT"}
        /\ TypeAt(toks, j + 1) = "IDENTIFIER"
        /\ toks[j + 1].value = toks[k].value
        /\ TypeAt(toks, j + 2) /= "LPAREN"
        /\ TypeAt(toks, j - 1) \notin {"LPAREN", "COMMA"}
        /\ \A m \in j..k : BraceDepth(toks, m) >= BraceDepth(toks, j)}

\* the literal at k is all that initializes the variable declared before it
IsInitialization(toks, k) ==
    /\ TypeAt(toks, k) \in LiteralTypes
    /\ TypeAt(toks, k + 1) = "SEMICOLON"
    /\ TypeAt(toks, k - 1) = "ASSIGN"
    /\ TypeAt(toks, k - 2) = "IDENTIFIER"
    /\ TypeAt(toks, k - 3) \in {"INT", "CHAR", "FLOAT"}

\* the literal at k is all that is assigned to a variable whose declaration is in scope
IsAssignment(toks, k) ==
    /\ TypeAt(toks, k) \in LiteralTypes
    /\ TypeAt(toks, k + 1) = "SEMICOLON"
    /\ TypeAt(toks, k - 1) = "ASSIGN"
    /\ TypeAt(toks, k - 2) = "IDENTIFIER"
    /\ TypeAt(toks, k - 3) \notin TypeKeywords
    /\ VisibleDeclarations(toks, k - 2) /= {}

\* the declared base type of the variable that the literal at k is given to
DeclaredType(toks, k) ==
    IF IsInitialization(toks, k) THEN toks[k - 3].value
    ELSE toks[Max(VisibleDeclarations(toks, k - 2))].value

LiteralType(type) ==
    CASE type = "INTEGER" -> "int"
      [] type = "FLOAT_LITERAL" -> "float"
      [] type = "CHAR_LITERAL" -> "char"

(***************************************************************************)
(* Properties                                                              *)
(***************************************************************************)
\* C1: on every token list that ends in EOF, SyntaxAnalyzer.analyze terminates,
\* also when a '{' of a function, if, while or for body is never closed: under
\* the fairness of SyntaxFairSpec, analyze eventually returns.
C1_AnalyzeTerminates == <>(syntax_pc = "returned")

\* C2: for every input string, once Tokenizer.tokenize is over it has returned a
\* token list whose last token is EOF and that has no other EOF token.
C2_TokenizeEndsWithOneEOF ==
    tokenizer_pc \in {"returned", "raised"} =>
        /\ tokenizer_pc = "returned"
        /\ tokens /= <<>>
        /\ tokens[Len(tokens)].type = "EOF"
        /\ \A k \in 1..(Len(tokens) - 1) : tokens[k].type /= "EOF"

\* C3: the tokenizer does not abort on a character that starts no token (it is
\* to emit an invalid-character token and scan on): tokenize never raises.
C3_InvalidCharacterDoesNotAbort == tokenizer_pc /= "raised"

\* C4: for any source text a run of the analysis yields the diagnostic list of
\* each of the three stages, and no fault raised in a stage keeps a later stage
\* from running: the run never ends in the exception handler.
C4_EveryStageRuns == analyze_pc /= "failed"

\* C5: for `int main() { return 0; }` the lexical detector, the syntax analyzer
\* and the semantic checker each return an empty diagnostic list.
C5_ValidProgramHasNoDiagnostics ==
    (source = Scenario1 /\ analyze_pc = "done") =>
        /\ lexical_errors = <<>>
        /\ syntax_errors = <<>>
        /\ semantic_errors = <<>>

\* C6: for `int x = 5` the syntax analyzer reports a missing-semicolon error and
\* an unclosed-structure error located at EOF, and the lexical detector reports
\* nothing.
C6_MissingSemicolonAndUnclosed ==
    (source = Scenario2 /\ analyze_pc = "done") =>
        /\ lexical_errors = <<>>
        /\ \E n \in 1..Len(syntax_errors) :
               \/ Contains(syntax_errors[n].message, "';'")
               \/ Contains(syntax_errors[n].message, "emicolon")
        /\ ErrorsAt(syntax_errors, tokens[Len(tokens)]) /= {}

\* C7: for a call to an already declared function, check_types reports 'Too few
\* arguments' at the call iff the call has fewer arguments than the function has
\* parameters, 'Too many arguments' (within the call) iff it has more, and
\* neither when the numbers are equal.
C7_ArityDiagnostics ==
    semantic_pc = "returned" =>
        \A k \in CallsOfDeclared(tokens) :
            /\ (\E n \in ErrorsAt(semantic_errors, tokens[k]) :
                    semantic_errors[n].message
                        = "Too few arguments in call to '" \o tokens[k].value \o "'")
               <=> Items(tokens, k + 1) < ParametersOf(tokens, k)
            /\ (\E m \in k..Closing(tokens, k + 1) :
                    \E n \in ErrorsAt(semantic_errors, tokens[m]) :
                        semantic_errors[n].message
                            = "Too many arguments in call to '" \o tokens[k].value \o "'")
               <=> Items(tokens, k + 1) > ParametersOf(tokens, k)

\* C8: a literal that is assigned to a declared variable, or initializes it, gets
\* exactly one 'Type mismatch' error at the literal when its type differs from
\* the declared base type of the variable, and none when the types are the same.
C8_LiteralTypeMismatch ==
    semantic_pc = "returned" =>
        \A k \in 1..Len(tokens) :
            (IsInitialization(tokens, k) \/ IsAssignment(tokens, k)) =>
                Cardinality({n \in ErrorsAt(semantic_errors, tokens[k]) :
                                StartsWith(semantic_errors[n].message, "Type mismatch")})
                    = IF LiteralType(tokens[k].type) /= DeclaredType(tokens, k)
                      THEN 1 ELSE 0

\* C9: for a lone '}' the syntax stage reports 'unexpected closing brace' and
\* records a panic-mode resynchronization action.
C9_LoneClosingBrace ==
    (gui_code = "}\n" /\ gui_pc = "displayed") =>
        /\ \E n \in 1..Len(gui_errors) :
               Contains(gui_errors[n], "Unexpected closing brace")
        /\ \E n \in 1..Len(recovery_actions) :
               Contains(recovery_actions[n], "Panic Mode Recovery")

\* C10: a use of a variable name with no declaration earlier in the token list
\* gets a 'not declared' error located at the use.
C10_UndeclaredUseReported ==
    semantic_pc = "returned" =>
        \A k \in 1..Len(tokens) :
            (IsUse(tokens, k) /\ ~DeclaredEarlier(tokens, k)) =>
                \E n \in ErrorsAt(semantic_errors, tokens[k]) :
                    semantic_errors[n].message
                        = "Variable '" \o tokens[k].value \o "' is not declared"

\* the frames of the table that hold the name
LiveFrames(name) == {k \in 1..Len(scopes) : name \in DOMAIN scopes[k]}

\* the table's fields
TableFields == <<symbols, scope_level, scopes>>

\* C11: lookup(name) returns the symbol of the innermost live frame that holds
\* the name, and None when no live frame holds it: with x declared at depth 0 and
\* again at depth 1 it returns the depth-1 symbol, and after exit_scope the
\* depth-0 symbol.
C11_LookupInnermost ==
    last_call.op = "lookup" =>
        IF LiveFrames(last_call.name) = {}
        THEN last_call.result = NoSymbol
        ELSE /\ last_call.result = scopes[Max(LiveFrames(last_call.name))][last_call.name]
             /\ last_call.result.scope_level = Max(LiveFrames(last_call.name)) - 1

\* lookup("x") has returned the depth-1 symbol while x is declared at depth 0 too
C11_Witness ==
    /\ last_call.op = "lookup" /\ last_call.name = "x"
    /\ LiveFrames("x") = {1, 2}
    /\ last_call.result.scope_level = 1

\* C12: after every call scope_level is >= 0, the scope stack holds scope_level + 1
\* frames of which frame k holds the symbols declared at depth k - 1 (the global
\* frame is the bottom one), and exit_scope at depth 0 changes nothing.
C12_ScopeDepth ==
    [][/\ scope_level' >= 0
       /\ Len(scopes') = scope_level' + 1
       /\ \A k \in 1..Len(scopes') : \A n \in DOMAIN scopes'[k] :
              scopes'[k][n].scope_level = k - 1
       /\ (last_call'.op = "exit_scope" /\ scope_level = 0) => UNCHANGED TableFields
      ]_vars

\* exit_scope was called at depth 0 on a table that holds a symbol
C12_Witness ==
    /\ last_call.op = "exit_scope" /\ last_call.depth = 0
    /\ DOMAIN scopes[1] /= {}

\* C13: add_symbol returns False and leaves the table as it was when the name is
\* in the innermost frame, and otherwise returns True and adds the symbol, also
\* when an outer frame holds the name; update_symbol returns False and leaves the
\* table as it was when no frame holds the name.
C13_FailureLeavesTable ==
    [][/\ last_call'.op = "add_symbol" =>
            /\ last_call'.result = (last_call'.symbol.name \notin DOMAIN scopes[Len(scopes)])
            /\ ~last_call'.result => UNCHANGED TableFields
            /\ last_call'.result =>
                   /\ scopes'[Len(scopes')][last_call'.symbol.name] = last_call'.symbol
                   /\ Len(scopes') = Len(scopes)
                   /\ \A k \in 1..(Len(scopes) - 1) : scopes'[k] = scopes[k]
       /\ last_call'.op = "update_symbol" =>
            /\ last_call'.result = (LiveFrames(last_call'.name) /= {})
            /\ ~last_call'.result => UNCHANGED TableFields
      ]_vars

\* add_symbol has returned False for a name of the innermost frame
C13_Witness ==
    /\ last_call.op = "add_symbol" /\ ~last_call.result
    /\ last_call.symbol.name \in DOMAIN scopes[Len(scopes)]

\* the 1-based line of the character at the 0-based offset p of src
LineOf(src, p) == 1 + Cardinality({q \in 0..(p - 1) : char_at(src, q) = "\n"})

\* the 1-based column of the character at the 0-based offset p of src
ColumnOf(src, p) == p - Max({-1} \cup {q \in 0..(p - 1) : char_at(src, q) = "\n"})

\* the text of the token stands in src at the line and column the token records
StandsAt(src, token) ==
    \E p \in 0..(Len(src) - 1) :
        /\ LineOf(src, p) = token.line
        /\ ColumnOf(src, p) = token.column
        /\ p + Len(token.value) <= Len(src)
        /\ SubSeq(src, p + 1, p + Len(token.value)) = token.value

\* C14: every token that tokenize returns records the 1-based line and column of
\* its first character in the source, also next to a newline: the token's text
\* stands in the source at the recorded position.
C14_TokenPositions ==
    tokenizer_pc = "returned" =>
        \A k \in 1..(Len(tokens) - 1) :
            /\ tokens[k].line >= 1 /\ tokens[k].column >= 1
            /\ StandsAt(source, tokens[k])

\* a TypeChecker as __init__ leaves it
FreshChecker ==
    [errors |-> <<>>, variables |-> EmptyDict, functions |-> EmptyDict,
     current_scope_level |-> 0, basic_types |-> BasicTypesInit]

\* C15: no state survives across runs: the diagnostics that detect_errors, analyze
\* and check_types return for a token list on instances that have analyzed other
\* token lists before (also in a run that ended in an exception) are the ones
\* that fresh instances return for it.
C15_NoStateAcrossRuns ==
    /\ analyze_pc \in {"syntax", "done"} => lexical_errors = detect_errors(tokens)
    /\ syntax_pc = "returned" => syntax_errors = analyze(tokens)
    /\ (analyze_pc = "done" /\ semantic_pc = "returned") =>
           /\ ~check_types(tokens, FreshChecker).raised
           /\ semantic_errors = check_types(tokens, FreshChecker).cs.errors

\* a run has ended on a checker that has declared an array in a run before
C15_Witness ==
    /\ analyze_pc = "done" /\ semantic_pc = "returned"
    /\ basic_types["int"].is_array
    /\ \A n \in DOMAIN variables : ~basic_types[variables[n].type].is_array

\* C16: check_types returns a diagnostic list and never raises, whatever token
\* list the tokenizer produced, also when a ')' or a '}' is missing.
C16_CheckTypesNeverRaises == semantic_pc /= "raised"

\* C17: while analyze runs the token cursor never decreases, and every iteration
\* of the loop of _parse_program (one function declaration or statement attempt)
\* leaves it at least one higher than it found it.
C17_CursorAdvances ==
    [][/\ current_token_index' >= current_token_index
       /\ (Len(call_stack) > 1 /\ Len(call_stack') = 1) =>
              current_token_index' > attempt_start
      ]_vars

\* the second iteration of the loop of _parse_program is over
C17_Witness ==
    /\ syntax_pc = "running" /\ Len(call_stack) = 1
    /\ attempt_start > 0 /\ current_token_index > attempt_start

\* C18: _expect(kind) on a current token of that kind moves the cursor on by
\* exactly one, adds no diagnostic and returns True; on any other current token
\* it appends exactly one error diagnostic at the line and column of the current
\* token, leaves the cursor where it is and returns False.
C18_ExpectEffect ==
    [][last_call'.op = "_expect" =>
          IF _current_token(tokens, current_token_index).type = last_call'.token_type
          THEN /\ last_call'.result
               /\ current_token_index' = current_token_index + 1
               /\ syntax_errors' = syntax_errors
          ELSE /\ ~last_call'.result
               /\ current_token_index' = current_token_index
               /\ Len(syntax_errors') = Len(syntax_errors) + 1
               /\ SubSeq(syntax_errors', 1, Len(syntax_errors)) = syntax_errors
               /\ LET error == syntax_errors'[Len(syntax_errors')]
                      token == _current_token(tokens, current_token_index)
                  IN  /\ error.line = token.line /\ error.column = token.column
                      /\ error.severity = "error"
      ]_vars

\* _expect has returned False after it had returned True
C18_Witness ==
    /\ last_call.op = "_expect" /\ ~last_call.result
    /\ current_token_index > 0 /\ Len(syntax_errors) = 1

\* the synchronizing tokens
Synchronizing == {"SEMICOLON", "LBRACE", "RBRACE"}

\* the token at the position k got an 'Invalid statement' diagnostic
InvalidStatementAt(toks, k) ==
    \E n \in ErrorsAt(syntax_errors, toks[k]) :
        syntax_errors[n].message = "Invalid statement"

\* C19: when statement parsing meets a token that starts no production, the
\* parser skips to the next synchronizing token (';', '{' or '}') and resumes
\* there, so a run of tokens that start no statement gets one diagnostic: no two
\* neighbours in such a run get an 'Invalid statement' diagnostic each.
C19_PanicModeSkips ==
    syntax_pc = "returned" =>
        \A k \in 1..(Len(tokens) - 1) :
            ~ /\ tokens[k].type \notin Synchronizing
              /\ tokens[k + 1].type \notin Synchronizing
              /\ InvalidStatementAt(tokens, k)
              /\ InvalidStatementAt(tokens, k + 1)

\* the brackets of the text that are open at its end: [braces, parens], a closing
\* bracket closing the last open bracket of its kind, if there is one
RECURSIVE OpenBrackets(_, _)
OpenBrackets(text, open) ==
    IF text = "" THEN open
    ELSE OpenBrackets(Tail(text),
             CASE Head(text) = "{" -> [open EXCEPT !.braces = @ + 1]
               [] Head(text) = "}" -> [open EXCEPT !.braces = Max({0, @ - 1})]
               [] Head(text) = "(" -> [open EXCEPT !.parens = @ + 1]
               [] Head(text) = ")" -> [open EXCEPT !.parens = Max({0, @ - 1})]
               [] OTHER -> open)

\* the diagnostics of the second window that report an unclosed bracket
UnclosedDiagnostics == {n \in 1..Len(gui_errors) : Contains(gui_errors[n], "Unclosed")}

\* C20: when the end of the text is reached with n brackets ('{' or '(') still
\* open, the syntax stage reports exactly n unclosed-bracket diagnostics.
C20_UnclosedBrackets ==
    gui_pc = "displayed" =>
        Cardinality(UnclosedDiagnostics)
            = OpenBrackets(gui_code, [braces |-> 0, parens |-> 0]).braces
              + OpenBrackets(gui_code, [braces |-> 0, parens |-> 0]).parens

\* the token lists of the bodies with a missing ';', each with the position of
\* the token that stands where the ';' was expected
MissingSemicolonCases ==
    {[tokens |-> Tokenize(BodyOf(first, rest)).tokens,
      at |-> Len(Tokenize("int f() { " \o first).tokens)] :
        first \in Unterminated, rest \in Following}

\* C21: when a statement of a function body (a declaration, an assignment, a
\* call or a return) lacks only its ';', the parser records exactly one syntax
\* error, at the token where the ';' was expected and with a suggestion that
\* names the missing token, and parses the well-formed statements that follow
\* with no further diagnostic.
C21_MissingSemicolon ==
    syntax_pc = "returned" =>
        \A case \in MissingSemicolonCases :
            tokens = case.tokens =>
                /\ Len(syntax_errors) = 1
                /\ ErrorsAt(syntax_errors, tokens[case.at]) = {1}
                /\ Contains(syntax_errors[1].suggestion, "SEMICOLON")

\* C22: every symbol stored in a frame of the table records the scope_level
\* that was the depth of the table when it was inserted, which is the depth of
\* its frame, whichever of add_symbol, add_variable, add_parameter and
\* add_function inserted it.
C22_ScopeLevelRecorded ==
    \A k \in 1..Len(scopes) :
        \A name \in DOMAIN scopes[k] : scopes[k][name].scope_level = k - 1

\* a declaration of a variable at the position k: a type and a name that is
\* neither the name of a function nor a parameter
IsVariableDeclaration(toks, k) ==
    /\ TypeAt(toks, k) \in {"INT", "CHAR", "FLOAT"}
    /\ TypeAt(toks, k + 1) = "IDENTIFIER"
    /\ TypeAt(toks, k + 2) /= "LPAREN"
    /\ TypeAt(toks, k - 1) \notin {"LPAREN", "COMMA"}

\* the scope that the position k is in: the position of the '{' of the function
\* body around k, 0 for the global scope
EnclosingBody(toks, k) ==
    IF BraceDepth(toks, k) = 0 THEN 0
    ELSE Max({m \in 1..(k - 1) : toks[m].type = "LBRACE" /\ BraceDepth(toks, m) = 0})

\* the declarations of the variable declared at k that are earlier in its scope
EarlierInScope(toks, k) ==
    {j \in 1..(k - 1) :
        /\ IsVariableDeclaration(toks, j)
        /\ toks[j + 1].value = toks[k + 1].value
        /\ EnclosingBody(toks, j) = EnclosingBody(toks, k)}

\* C23: a variable declaration gets the error 'already declared in this scope'
\* exactly when an earlier declaration of the same name is in the same scope:
\* the same name in two function bodies, or once globally and once in a body,
\* is not flagged, and a second global declaration is flagged also when a body
\* in between declared the name.
C23_AlreadyDeclared ==
    semantic_pc = "returned" =>
        \A k \in 1..Len(tokens) :
            IsVariableDeclaration(tokens, k) =>
                ((\E n \in ErrorsAt(semantic_errors, tokens[k]) :
                     semantic_errors[n].message
                         = "Variable '" \o tokens[k + 1].value
                               \o "' is already declared in this scope")
                 <=> EarlierInScope(tokens, k) /= {})

\* the variable declared at k is declared in function bodies only
DeclaredInBodiesOnly(toks, k) ==
    /\ IsVariableDeclaration(toks, k)
    /\ \A j \in 1..Len(toks) :
           (IsVariableDeclaration(toks, j) /\ toks[j + 1].value = toks[k + 1].value)
               => BraceDepth(toks, j) > 0

\* C24: every variable declared between the '{' of a function and its matching
\* '}' is registered at the scope depth 1, also when it is declared after a
\* nested if, while or for block of the body, and the scope depth is 0 again
\* when check_types returns.
C24_BodyScopeDepth ==
    semantic_pc = "returned" =>
        /\ current_scope_level = 0
        /\ \A k \in 1..Len(tokens) :
               DeclaredInBodiesOnly(tokens, k) =>
                   /\ tokens[k + 1].value \in DOMAIN variables
                   /\ variables[tokens[k + 1].value].scope_level = 1

\* the token lists of the programs that declare f twice, each with the position
\* of its second declaration
FunctionRedeclarationCases ==
    {[tokens |-> Tokenize(Redeclared(first, second, call)).tokens,
      at |-> Len(Tokenize(first).tokens)] :
        first \in Signatures, second \in Signatures, call \in Calls}

\* the tokens of toks from the position k on
TokensFrom(toks, k) == SubSeq(toks, k, Len(toks))

\* C25: when a function name is declared a second time, check_types emits
\* exactly one 'already declared' error, at the second declaration, and the
\* later signature replaces the earlier one: the calls after it get the arity
\* and argument type diagnostics that they get when the second declaration is
\* the only one.
C25_RedeclaredFunction ==
    semantic_pc = "returned" =>
        \A case \in FunctionRedeclarationCases :
            tokens = case.tokens =>
                /\ {n \in 1..Len(semantic_errors) :
                        semantic_errors[n].message = "Function 'f' is already declared"}
                       = ErrorsAt(semantic_errors, tokens[case.at])
                /\ Cardinality(ErrorsAt(semantic_errors, tokens[case.at])) = 1
                /\ ~check_types(TokensFrom(tokens, case.at), FreshChecker).raised
                /\ Tail(semantic_errors)
                       = check_types(TokensFrom(tokens, case.at), FreshChecker).cs.errors

\* f was declared with two parameters and then with none, and a call of f with
\* one argument has been checked
C25_Witness ==
    /\ semantic_pc = "returned"
    /\ tokens = Tokenize(Redeclared("int f(float a, int b) { }", "int f() { }", "f(1);")).tokens
    /\ \E n \in 1..Len(semantic_errors) :
           StartsWith(semantic_errors[n].message, "Too many arguments")

\* the text from the first occurrence of sub in s on, "" when sub is not in s
RECURSIVE From(_, _)
From(s, sub) ==
    IF Len(s) < Len(sub) THEN ""
    ELSE IF StartsWith(s, sub) THEN s
    ELSE From(Tail(s), sub)

\* the text without its comments and its whitespace: a line comment reaches to
\* the end of its line, a block comment to the first "*/" after its "/*", or to
\* the end of the text when there is none
RECURSIVE Squeeze(_)
Squeeze(text) ==
    IF text = "" THEN ""
    ELSE IF StartsWith(text, "//") THEN Squeeze(From(text, "\n"))
    ELSE IF StartsWith(text, "/*")
    THEN LET rest == From(SubSeq(text, 3, Len(text)), "*/")
         IN  IF rest = "" THEN "" ELSE Squeeze(SubSeq(rest, 3, Len(rest)))
    ELSE IF isspace(Head(text)) THEN Squeeze(Tail(text))
    ELSE SubSeq(text, 1, 1) \o Squeeze(Tail(text))

\* the texts of the tokens, one after the other
RECURSIVE JoinValues(_)
JoinValues(toks) ==
    IF toks = <<>> THEN "" ELSE Head(toks).value \o JoinValues(Tail(toks))

\* C26: line comments, block comments and whitespace are skipped and produce no
\* token: the texts of the tokens are, in order, the text without its comments
\* and whitespace; a '/' that starts no comment is a DIVIDE token; and an
\* unterminated block comment takes the rest of the input, after which tokenize
\* still returns a list that ends in EOF: tokenize raises only for a character
\* outside the comments.
C26_CommentsSkipped ==
    /\ tokenizer_pc = "returned" =>
           /\ JoinValues(tokens) = Squeeze(source)
           /\ tokens[Len(tokens)].type = "EOF"
           /\ \A k \in 1..(Len(tokens) - 1) :
                  /\ tokens[k].value /= ""
                  /\ Contains(tokens[k].value, "/") =>
                         tokens[k].type = "DIVIDE" /\ tokens[k].value = "/"
    /\ tokenizer_pc = "raised" =>
           Contains(Squeeze(source), "#") \/ Contains(Squeeze(source), ".")

\* tokenize has returned for a text that ends in a block comment without an end,
\* after a token
C26_Witness ==
    /\ tokenizer_pc = "returned"
    /\ source = "a/* 1"
    /\ Len(tokens) = 2

\* C27: an identifier gets the error 'not declared' only if no declaration of a
\* variable and no declaration of a parameter of that name precedes it; a use
\* of a parameter of a function in the body of the function is not reported.
C27_DeclaredNotReported ==
    semantic_pc = "returned" =>
        \A k \in 1..Len(tokens) :
            (\E n \in ErrorsAt(semantic_errors, tokens[k]) :
                 semantic_errors[n].message
                     = "Variable '" \o tokens[k].value \o "' is not declared")
                => ~DeclaredEarlier(tokens, k)

\* the positions of the declarations of the variable whose name is at k
DeclarationsOf(toks, k) ==
    {j \in 1..Len(toks) :
        IsVariableDeclaration(toks, j) /\ toks[j + 1].value = toks[k].value}

\* the variable whose name is at k is indexed there
IsIndexed(toks, k) == IsUse(toks, k) /\ TypeAt(toks, k + 1) = "LBRACKET"

\* C28: the declaration of a variable does not change the type recorded for a
\* variable declared before it: when check_types returns, a variable that is
\* declared once, as type name[n], is recorded as an array and one that is
\* declared once without brackets as a non-array, whatever was declared after
\* it; an indexing of the variable after its declaration gets the error 'is
\* not an array' exactly when the declaration has no brackets.
C28_DeclarationKeepsTypes ==
    semantic_pc = "returned" =>
        \A k \in 1..Len(tokens) :
            \A j \in DeclarationsOf(tokens, k) :
                (DeclarationsOf(tokens, k) = {j} /\ j < k) =>
                    /\ (k = j + 1 /\ tokens[k].value \in DOMAIN variables) =>
                           (basic_types[variables[tokens[k].value].type].is_array
                            <=> TypeAt(tokens, j + 2) = "LBRACKET")
                    /\ IsIndexed(tokens, k) =>
                           ((\E n \in ErrorsAt(semantic_errors, tokens[k + 1]) :
                                semantic_errors[n].message
                                    = "Variable '" \o tokens[k].value \o "' is not an array")
                            <=> TypeAt(tokens, j + 2) /= "LBRACKET")

\* the symbols that the frames on the scope stack hold
SymbolsOnStack ==
    UNION {{scopes[k][name] : name \in DOMAIN scopes[k]} : k \in 1..Len(scopes)}

\* C29: after any sequence of enter_scope, exit_scope and add_symbol calls,
\* get_all_symbols returns exactly the symbols held in the frames that are on
\* the scope stack: no symbol of a popped frame, and also an outer symbol that
\* a declaration in a since-popped frame shadowed.
C29_AllSymbolsAreLive ==
    last_call.op = "get_all_symbols" => last_call.result = SymbolsOnStack

\* C30: recover_from_error(error, tokens, current_index) returns None or an index
\* that is greater than current_index and at most len(tokens), for every error
\* message and token list; so a caller that resumes at the returned index calls
\* it with a greater index every time, and is through after at most
\* len(tokens) recoveries.
C30_RecoveryAdvances ==
    [][last_call'.op = "recover_from_error" =>
          /\ last_call'.result /= NoIndex =>
                 /\ last_call'.result > last_call'.current_index
                 /\ last_call'.result <= Len(tokens)
          /\ last_call'.resumed =>
                 /\ last_call'.current_index > last_call.current_index
                 /\ last_call'.current_index <= Len(tokens)
      ]_vars

\* a call at the index that the call before returned has returned an index too
C30_Witness ==
    /\ last_call.op = "recover_from_error"
    /\ last_call.resumed
    /\ last_call.result /= NoIndex

====
